---- MODULE Spec2Model ----
(***************************************************************************)
(* Adaptive taxonomy mapper: TaxonomyLoader, TextAnalyzer, InferenceEngine *)
(* and OutputHandler.  Text is modelled character by character: a string  *)
(* is a sequence of one-character strings, so that lowercasing, stripping *)
(* splitting, substring search and pattern search are computed as the     *)
(* Python code computes them.                                              *)
(***************************************************************************)
EXTENDS Integers, Sequences, FiniteSets, TLC

(***************************************************************************)
(* Python str / re primitives                                              *)
(***************************************************************************)
\* None: a one-element sequence holding a token that is no character, so that
\* it differs from every string
None == <<"None">>

UpperLetters == <<"A","B","C","D","E","F","G","H","I","J","K","L","M",
                  "N","O","P","Q","R","S","T","U","V","W","X","Y","Z">>

LowerLetters == <<"a","b","c","d","e","f","g","h","i","j","k","l","m",
                  "n","o","p","q","r","s","t","u","v","w","x","y","z">>

Digits == {"0","1","2","3","4","5","6","7","8","9"}

Whitespace == {" ", "\t", "\n"}

UpperSet == {UpperLetters[i] : i \in 1..26}

LowerSet == {LowerLetters[i] : i \in 1..26}

LowerMap == [c \in UpperSet |-> LowerLetters[CHOOSE i \in 1..26 : UpperLetters[i] = c]]

UpperMap == [c \in LowerSet |-> UpperLetters[CHOOSE i \in 1..26 : LowerLetters[i] = c]]

\* the \w class of re on the characters the model uses
IsWordChar(c) == c \in UpperSet \cup LowerSet \cup Digits \cup {"_"}

\* the inputs' characters in code point order, for str comparison (sorted)
CodePointOrder ==
  <<"\t", "\n", " ", "!", "\"", "'", ",", "-", ".",
    "0","1","2","3","4","5","6","7","8","9", ":", ">", "?">>
  \o UpperLetters \o <<"[", "]", "_">> \o LowerLetters

Ord(c) == CHOOSE i \in 1..Len(CodePointOrder) : CodePointOrder[i] = c

MinOf(S) == CHOOSE x \in S : \A y \in S : x <= y

MaxOf(S) == CHOOSE x \in S : \A y \in S : y <= x

\* str.lower()
str_lower(s) == [i \in 1..Len(s) |-> IF s[i] \in UpperSet THEN LowerMap[s[i]] ELSE s[i]]

\* str.upper()
str_upper(s) == [i \in 1..Len(s) |-> IF s[i] \in LowerSet THEN UpperMap[s[i]] ELSE s[i]]

\* str.strip(chars): drop leading and trailing characters that are in chars
str_strip_chars(s, chars) ==
  LET keep == {i \in 1..Len(s) : s[i] \notin chars}
  IN IF keep = {} THEN <<>> ELSE SubSeq(s, MinOf(keep), MaxOf(keep))

\* str.strip()
str_strip(s) == str_strip_chars(s, Whitespace)

\* s[i:].startswith(p), i counted from 1
StartsWithAt(s, p, i) ==
  /\ i + Len(p) - 1 <= Len(s)
  /\ \A j \in 1..Len(p) : s[i + j - 1] = p[j]

\* str.startswith(p)
str_startswith(s, p) == StartsWithAt(s, p, 1)

\* `p in s' for two strings
str_contains(s, p) == \E i \in 1..(Len(s) - Len(p) + 1) : StartsWithAt(s, p, i)

\* the positions where sep occurs in s
Occurrences(s, sep) == {i \in 1..(Len(s) - Len(sep) + 1) : StartsWithAt(s, sep, i)}

\* str.split(sep): the pieces between the non-overlapping occurrences of sep
RECURSIVE str_split(_, _)
str_split(s, sep) ==
  LET occ == Occurrences(s, sep)
  IN IF occ = {} THEN <<s>>
     ELSE LET i == MinOf(occ)
          IN <<SubSeq(s, 1, i - 1)>> \o str_split(SubSeq(s, i + Len(sep), Len(s)), sep)

\* str.split(sep, 1): at most one split, at the first occurrence of sep
str_split1(s, sep) ==
  LET occ == Occurrences(s, sep)
  IN IF occ = {} THEN <<s>>
     ELSE LET i == MinOf(occ)
          IN <<SubSeq(s, 1, i - 1), SubSeq(s, i + Len(sep), Len(s))>>

\* sep.join(parts)
RECURSIVE str_join(_, _)
str_join(sep, parts) ==
  IF Len(parts) = 0 THEN <<>>
  ELSE IF Len(parts) = 1 THEN parts[1]
  ELSE parts[1] \o sep \o str_join(sep, Tail(parts))

\* s < t in Python's str order (code points, a proper prefix first)
RECURSIVE str_less(_, _)
str_less(s, t) ==
  IF Len(t) = 0 THEN FALSE
  ELSE IF Len(s) = 0 THEN TRUE
  ELSE IF s[1] = t[1] THEN str_less(Tail(s), Tail(t))
  ELSE Ord(s[1]) < Ord(t[1])

\* sorted(list of str)
RECURSIVE sorted(_)
sorted(xs) ==
  IF Len(xs) = 0 THEN <<>>
  ELSE LET m == CHOOSE i \in 1..Len(xs) :
                  \A j \in 1..Len(xs) : ~str_less(xs[j], xs[i])
                                         /\ (xs[j] = xs[i] => i <= j)
           rest == [k \in 1..(Len(xs) - 1) |-> IF k < m THEN xs[k] ELSE xs[k + 1]]
       IN <<xs[m]>> \o sorted(rest)

(***************************************************************************)
(* Patterns of the re module, as syntax trees (see sre_parse)              *)
(***************************************************************************)
RLit(s) == [t |-> "lit", s |-> s]

RCat(c) == [t |-> "cat", c |-> c]

RIn(items) == [t |-> "in", items |-> items]

RAny == [t |-> "any"]

RRep(lo, hi, r) == [t |-> "rep", lo |-> lo, hi |-> hi, r |-> r]

RAlt(rs) == [t |-> "alt", rs |-> rs]

RSeq(rs) == [t |-> "seq", rs |-> rs]

\* does the single character c belong to the class item (a literal or \s \w \d)
InClassItem(c, item) ==
  IF item.t = "lit" THEN item.s = <<c>>
  ELSE IF item.c = "space" THEN c \in Whitespace
  ELSE IF item.c = "word" THEN IsWordChar(c)
  ELSE c \in Digits

\* MatchEnds(r, s, i): every position j such that r matches s[i..j-1]
RECURSIVE MatchEnds(_, _, _)
RECURSIVE SeqEnds(_, _, _, _)
RECURSIVE RepEnds(_, _, _, _, _)
MatchEnds(r, s, i) ==
  IF r.t = "lit" THEN (IF StartsWithAt(s, r.s, i) THEN {i + Len(r.s)} ELSE {})
  ELSE IF r.t = "cat" THEN (IF i <= Len(s) /\ InClassItem(s[i], r) THEN {i + 1} ELSE {})
  ELSE IF r.t = "in" THEN
    (IF i <= Len(s) /\ \E k \in 1..Len(r.items) : InClassItem(s[i], r.items[k])
     THEN {i + 1} ELSE {})
  ELSE IF r.t = "any" THEN (IF i <= Len(s) /\ s[i] # "\n" THEN {i + 1} ELSE {})
  ELSE IF r.t = "alt" THEN UNION {MatchEnds(r.rs[k], s, i) : k \in 1..Len(r.rs)}
  ELSE IF r.t = "seq" THEN SeqEnds(r.rs, s, {i}, 1)
  ELSE RepEnds(r, s, {i}, 0, {})

\* the end positions after matching rs[k..] from any of the positions in from
SeqEnds(rs, s, from, k) ==
  IF k > Len(rs) \/ from = {} THEN from
  ELSE SeqEnds(rs, s, UNION {MatchEnds(rs[k], s, i) : i \in from}, k + 1)

\* the end positions after n, n+1, ... repetitions of r.r, at most r.hi
\* (r.hi = -1: no upper limit); from holds the ends after n repetitions
RepEnds(r, s, from, n, acc) ==
  LET acc2 == IF n >= r.lo THEN acc \cup from ELSE acc
      next == UNION {MatchEnds(r.r, s, i) : i \in from}
  IN IF from = {} \/ (r.hi # -1 /\ n >= r.hi) \/ (n >= r.lo /\ next \subseteq acc2)
     THEN acc2
     ELSE RepEnds(r, s, next, n + 1, acc2)

\* re.search(r, s) is not None
re_search(r, s) == \E i \in 1..(Len(s) + 1) : MatchEnds(r, s, i) # {}

(***************************************************************************)
(* TextAnalyzer._build_pattern_rules: the pattern registry                 *)
(***************************************************************************)
(* enemies-to-lovers *)
pat_enemies_to_lovers ==
  [ name |-> <<"e","n","e","m","i","e","s","-","t","o","-","l","o","v","e","r","s">>,
    keywords |-> << <<"h","a","t","e">>,
                    <<"h","a","t","e","d">>,
                    <<"e","n","e","m","y">>,
                    <<"e","n","e","m","i","e","s">>,
                    <<"r","i","v","a","l">>,
                    <<"r","i","v","a","l","r","y">>,
                    <<"d","e","s","p","i","s","e">>,
                    <<"l","o","a","t","h","e">>,
                    <<"a","n","t","a","g","o","n","i","s","t">>,
                    <<"c","o","m","p","e","t","e">>,
                    <<"c","o","m","p","e","t","i","t","i","o","n">> >>,
    phrases |-> << (* hated\s+each\s+other *) RSeq(<<RLit(<<"h","a","t","e","d">>), RRep(1, -1, RIn(<<RCat("space")>>)), RLit(<<"e","a","c","h">>), RRep(1, -1, RIn(<<RCat("space")>>)), RLit(<<"o","t","h","e","r">>)>>),
                   (* couldn\'t\s+stand *) RSeq(<<RLit(<<"c","o","u","l","d","n","'","t">>), RRep(1, -1, RIn(<<RCat("space")>>)), RLit(<<"s","t","a","n","d">>)>>),
                   (* worst\s+enemy *) RSeq(<<RLit(<<"w","o","r","s","t">>), RRep(1, -1, RIn(<<RCat("space")>>)), RLit(<<"e","n","e","m","y">>)>>),
                   (* changed\s+everything *) RSeq(<<RLit(<<"c","h","a","n","g","e","d">>), RRep(1, -1, RIn(<<RCat("space")>>)), RLit(<<"e","v","e","r","y","t","h","i","n","g">>)>>),
                   (* fell\s+in\s+love *) RSeq(<<RLit(<<"f","e","l","l">>), RRep(1, -1, RIn(<<RCat("space")>>)), RLit(<<"i","n">>), RRep(1, -1, RIn(<<RCat("space")>>)), RLit(<<"l","o","v","e">>)>>),
                   (* unexpected\s+(love|feelings) *) RSeq(<<RLit(<<"u","n","e","x","p","e","c","t","e","d">>), RRep(1, -1, RIn(<<RCat("space")>>)), RAlt(<<RLit(<<"l","o","v","e">>), RLit(<<"f","e","e","l","i","n","g","s">>)>>)>>) >>,
    context_requires |-> << <<"l","o","v","e">>,
                            <<"r","o","m","a","n","c","e">>,
                            <<"r","e","l","a","t","i","o","n","s","h","i","p">>,
                            <<"t","o","g","e","t","h","e","r">>,
                            <<"f","e","e","l","i","n","g","s">> >>,
    weight |-> 100 ]

(* slow-burn *)
pat_slow_burn ==
  [ name |-> <<"s","l","o","w","-","b","u","r","n">>,
    keywords |-> << <<"y","e","a","r","s">>,
                    <<"s","l","o","w","l","y">>,
                    <<"g","r","a","d","u","a","l">>,
                    <<"t","i","m","e">>,
                    <<"p","a","t","i","e","n","c","e">>,
                    <<"w","a","i","t","i","n","g">>,
                    <<"f","r","i","e","n","d","s","h","i","p">>,
                    <<"f","r","i","e","n","d","s">>,
                    <<"e","v","e","n","t","u","a","l","l","y">> >>,
    phrases |-> << (* over\s+the\s+years *) RSeq(<<RLit(<<"o","v","e","r">>), RRep(1, -1, RIn(<<RCat("space")>>)), RLit(<<"t","h","e">>), RRep(1, -1, RIn(<<RCat("space")>>)), RLit(<<"y","e","a","r","s">>)>>),
                   (* slowly\s+(fell|developed|grew) *) RSeq(<<RLit(<<"s","l","o","w","l","y">>), RRep(1, -1, RIn(<<RCat("space")>>)), RAlt(<<RLit(<<"f","e","l","l">>), RLit(<<"d","e","v","e","l","o","p","e","d">>), RLit(<<"g","r","e","w">>)>>)>>),
                   (* friends\s+first *) RSeq(<<RLit(<<"f","r","i","e","n","d","s">>), RRep(1, -1, RIn(<<RCat("space")>>)), RLit(<<"f","i","r","s","t">>)>>),
                   (* took\s+time *) RSeq(<<RLit(<<"t","o","o","k">>), RRep(1, -1, RIn(<<RCat("space")>>)), RLit(<<"t","i","m","e">>)>>) >>,
    context_requires |-> << <<"l","o","v","e">>,
                            <<"r","o","m","a","n","c","e">>,
                            <<"f","e","e","l","i","n","g","s">> >>,
    weight |-> 80 ]

(* second chance *)
pat_second_chance ==
  [ name |-> <<"s","e","c","o","n","d"," ","c","h","a","n","c","e">>,
    keywords |-> << <<"a","g","a","i","n">>,
                    <<"r","e","u","n","i","o","n">>,
                    <<"r","e","u","n","i","t","e">>,
                    <<"r","e","t","u","r","n">>,
                    <<"y","e","a","r","s">>,
                    <<"p","a","s","t">>,
                    <<"m","e","m","o","r","y">>,
                    <<"m","e","m","o","r","i","e","s">>,
                    <<"r","e","g","r","e","t">>,
                    <<"w","o","n","d","e","r">>,
                    <<"g","r","a","y","-","h","a","i","r","e","d">>,
                    <<"o","l","d","e","r">> >>,
    phrases |-> << (* met\s+again *) RSeq(<<RLit(<<"m","e","t">>), RRep(1, -1, RIn(<<RCat("space")>>)), RLit(<<"a","g","a","i","n">>)>>),
                   (* years\s+(later|after) *) RSeq(<<RLit(<<"y","e","a","r","s">>), RRep(1, -1, RIn(<<RCat("space")>>)), RAlt(<<RLit(<<"l","a","t","e","r">>), RLit(<<"a","f","t","e","r">>)>>)>>),
                   (* what\s+could\s+have\s+been *) RSeq(<<RLit(<<"w","h","a","t">>), RRep(1, -1, RIn(<<RCat("space")>>)), RLit(<<"c","o","u","l","d">>), RRep(1, -1, RIn(<<RCat("space")>>)), RLit(<<"h","a","v","e">>), RRep(1, -1, RIn(<<RCat("space")>>)), RLit(<<"b","e","e","n">>)>>),
                   (* second\s+chance *) RSeq(<<RLit(<<"s","e","c","o","n","d">>), RRep(1, -1, RIn(<<RCat("space")>>)), RLit(<<"c","h","a","n","c","e">>)>>),
                   (* came\s+back *) RSeq(<<RLit(<<"c","a","m","e">>), RRep(1, -1, RIn(<<RCat("space")>>)), RLit(<<"b","a","c","k">>)>>),
                   (* after\s+the\s+war *) RSeq(<<RLit(<<"a","f","t","e","r">>), RRep(1, -1, RIn(<<RCat("space")>>)), RLit(<<"t","h","e">>), RRep(1, -1, RIn(<<RCat("space")>>)), RLit(<<"w","a","r">>)>>) >>,
    context_requires |-> << <<"l","o","v","e">>,
                            <<"r","o","m","a","n","c","e">>,
                            <<"r","e","l","a","t","i","o","n","s","h","i","p">>,
                            <<"t","o","g","e","t","h","e","r">> >>,
    weight |-> 100 ]

(* espionage *)
pat_espionage ==
  [ name |-> <<"e","s","p","i","o","n","a","g","e">>,
    keywords |-> << <<"s","p","y">>,
                    <<"s","p","i","e","s">>,
                    <<"a","g","e","n","t">>,
                    <<"m","i","s","s","i","o","n">>,
                    <<"s","e","c","r","e","t">>,
                    <<"c","o","v","e","r","t">>,
                    <<"i","n","t","e","l","l","i","g","e","n","c","e">>,
                    <<"c","i","a">>,
                    <<"m","i","6">>,
                    <<"k","r","e","m","l","i","n">>,
                    <<"k","g","b">>,
                    <<"u","n","d","e","r","c","o","v","e","r">>,
                    <<"o","p","e","r","a","t","i","v","e">>,
                    <<"c","l","a","s","s","i","f","i","e","d">>,
                    <<"i","n","f","i","l","t","r","a","t","e">> >>,
    phrases |-> << (* secret\s+mission *) RSeq(<<RLit(<<"s","e","c","r","e","t">>), RRep(1, -1, RIn(<<RCat("space")>>)), RLit(<<"m","i","s","s","i","o","n">>)>>),
                   (* without\s+being\s+detected *) RSeq(<<RLit(<<"w","i","t","h","o","u","t">>), RRep(1, -1, RIn(<<RCat("space")>>)), RLit(<<"b","e","i","n","g">>), RRep(1, -1, RIn(<<RCat("space")>>)), RLit(<<"d","e","t","e","c","t","e","d">>)>>),
                   (* stolen\s+(drive|documents|files|intel) *) RSeq(<<RLit(<<"s","t","o","l","e","n">>), RRep(1, -1, RIn(<<RCat("space")>>)), RAlt(<<RLit(<<"d","r","i","v","e">>), RLit(<<"d","o","c","u","m","e","n","t","s">>), RLit(<<"f","i","l","e","s">>), RLit(<<"i","n","t","e","l">>)>>)>>),
                   (* double\s+agent *) RSeq(<<RLit(<<"d","o","u","b","l","e">>), RRep(1, -1, RIn(<<RCat("space")>>)), RLit(<<"a","g","e","n","t">>)>>),
                   (* enemy\s+territory *) RSeq(<<RLit(<<"e","n","e","m","y">>), RRep(1, -1, RIn(<<RCat("space")>>)), RLit(<<"t","e","r","r","i","t","o","r","y">>)>>) >>,
    context_requires |-> <<  >>,
    weight |-> 100 ]

(* psychological *)
pat_psychological ==
  [ name |-> <<"p","s","y","c","h","o","l","o","g","i","c","a","l">>,
    keywords |-> << <<"m","i","n","d">>,
                    <<"m","e","n","t","a","l">>,
                    <<"p","a","r","a","n","o","i","a">>,
                    <<"p","a","r","a","n","o","i","d">>,
                    <<"o","b","s","e","s","s","i","o","n">>,
                    <<"o","b","s","e","s","s","e","d">>,
                    <<"s","a","n","i","t","y">>,
                    <<"i","n","s","a","n","e">>,
                    <<"d","e","l","u","s","i","o","n">>,
                    <<"p","e","r","c","e","p","t","i","o","n">>,
                    <<"r","e","a","l","i","t","y">>,
                    <<"m","a","n","i","p","u","l","a","t","i","o","n">>,
                    <<"g","a","s","l","i","g","h","t">> >>,
    phrases |-> << (* losing\s+(his|her|their)\s+mind *) RSeq(<<RLit(<<"l","o","s","i","n","g">>), RRep(1, -1, RIn(<<RCat("space")>>)), RAlt(<<RLit(<<"h","i","s">>), RLit(<<"h","e","r">>), RLit(<<"t","h","e","i","r">>)>>), RRep(1, -1, RIn(<<RCat("space")>>)), RLit(<<"m","i","n","d">>)>>),
                   (* can\'t\s+trust *) RSeq(<<RLit(<<"c","a","n","'","t">>), RRep(1, -1, RIn(<<RCat("space")>>)), RLit(<<"t","r","u","s","t">>)>>),
                   (* what\s+is\s+real *) RSeq(<<RLit(<<"w","h","a","t">>), RRep(1, -1, RIn(<<RCat("space")>>)), RLit(<<"i","s">>), RRep(1, -1, RIn(<<RCat("space")>>)), RLit(<<"r","e","a","l">>)>>),
                   (* playing\s+mind\s+games *) RSeq(<<RLit(<<"p","l","a","y","i","n","g">>), RRep(1, -1, RIn(<<RCat("space")>>)), RLit(<<"m","i","n","d">>), RRep(1, -1, RIn(<<RCat("space")>>)), RLit(<<"g","a","m","e","s">>)>>) >>,
    context_requires |-> <<  >>,
    weight |-> 90 ]

(* legal thriller *)
pat_legal_thriller ==
  [ name |-> <<"l","e","g","a","l"," ","t","h","r","i","l","l","e","r">>,
    keywords |-> << <<"l","a","w","y","e","r">>,
                    <<"a","t","t","o","r","n","e","y">>,
                    <<"j","u","d","g","e">>,
                    <<"c","o","u","r","t">>,
                    <<"t","r","i","a","l">>,
                    <<"v","e","r","d","i","c","t">>,
                    <<"j","u","r","y">>,
                    <<"p","r","o","s","e","c","u","t","i","o","n">>,
                    <<"d","e","f","e","n","s","e">>,
                    <<"w","i","t","n","e","s","s">>,
                    <<"t","e","s","t","i","m","o","n","y">>,
                    <<"c","r","o","s","s","-","e","x","a","m","i","n","a","t","i","o","n">>,
                    <<"c","o","u","r","t","r","o","o","m">>,
                    <<"l","e","g","a","l">>,
                    <<"l","a","w">> >>,
    phrases |-> << (* before\s+the\s+judge *) RSeq(<<RLit(<<"b","e","f","o","r","e">>), RRep(1, -1, RIn(<<RCat("space")>>)), RLit(<<"t","h","e">>), RRep(1, -1, RIn(<<RCat("space")>>)), RLit(<<"j","u","d","g","e">>)>>),
                   (* cross[\-\s]examination *) RSeq(<<RLit(<<"c","r","o","s","s">>), RIn(<<RLit(<<"-">>), RCat("space")>>), RLit(<<"e","x","a","m","i","n","a","t","i","o","n">>)>>),
                   (* opening\s+statement *) RSeq(<<RLit(<<"o","p","e","n","i","n","g">>), RRep(1, -1, RIn(<<RCat("space")>>)), RLit(<<"s","t","a","t","e","m","e","n","t">>)>>),
                   (* the\s+jury *) RSeq(<<RLit(<<"t","h","e">>), RRep(1, -1, RIn(<<RCat("space")>>)), RLit(<<"j","u","r","y">>)>>),
                   (* your\s+honor *) RSeq(<<RLit(<<"y","o","u","r">>), RRep(1, -1, RIn(<<RCat("space")>>)), RLit(<<"h","o","n","o","r">>)>>),
                   (* fate\s+of *) RSeq(<<RLit(<<"f","a","t","e">>), RRep(1, -1, RIn(<<RCat("space")>>)), RLit(<<"o","f">>)>>) >>,
    context_requires |-> <<  >>,
    weight |-> 120 ]

(* hard sci-fi *)
pat_hard_sci_fi ==
  [ name |-> <<"h","a","r","d"," ","s","c","i","-","f","i">>,
    keywords |-> << <<"p","h","y","s","i","c","s">>,
                    <<"s","c","i","e","n","c","e">>,
                    <<"f","t","l">>,
                    <<"l","i","g","h","t","-","s","p","e","e","d">>,
                    <<"q","u","a","n","t","u","m">>,
                    <<"s","t","a","s","i","s">>,
                    <<"c","r","y","o","g","e","n","i","c">>,
                    <<"m","e","t","a","b","o","l","i","c">>,
                    <<"p","r","o","p","u","l","s","i","o","n">>,
                    <<"o","r","b","i","t">>,
                    <<"t","r","a","j","e","c","t","o","r","y">>,
                    <<"r","a","d","i","a","t","i","o","n">>,
                    <<"g","r","a","v","i","t","y">>,
                    <<"e","n","g","i","n","e","e","r","i","n","g">> >>,
    phrases |-> << (* ftl\s+travel *) RSeq(<<RLit(<<"f","t","l">>), RRep(1, -1, RIn(<<RCat("space")>>)), RLit(<<"t","r","a","v","e","l">>)>>),
                   (* faster\s+than\s+light *) RSeq(<<RLit(<<"f","a","s","t","e","r">>), RRep(1, -1, RIn(<<RCat("space")>>)), RLit(<<"t","h","a","n">>), RRep(1, -1, RIn(<<RCat("space")>>)), RLit(<<"l","i","g","h","t">>)>>),
                   (* deep\s+dive\s+into *) RSeq(<<RLit(<<"d","e","e","p">>), RRep(1, -1, RIn(<<RCat("space")>>)), RLit(<<"d","i","v","e">>), RRep(1, -1, RIn(<<RCat("space")>>)), RLit(<<"i","n","t","o">>)>>),
                   (* the\s+physics\s+of *) RSeq(<<RLit(<<"t","h","e">>), RRep(1, -1, RIn(<<RCat("space")>>)), RLit(<<"p","h","y","s","i","c","s">>), RRep(1, -1, RIn(<<RCat("space")>>)), RLit(<<"o","f">>)>>),
                   (* long[\-\s]term\s+stasis *) RSeq(<<RLit(<<"l","o","n","g">>), RIn(<<RLit(<<"-">>), RCat("space")>>), RLit(<<"t","e","r","m">>), RRep(1, -1, RIn(<<RCat("space")>>)), RLit(<<"s","t","a","s","i","s">>)>>),
                   (* scientific\s+(accuracy|detail) *) RSeq(<<RLit(<<"s","c","i","e","n","t","i","f","i","c">>), RRep(1, -1, RIn(<<RCat("space")>>)), RAlt(<<RLit(<<"a","c","c","u","r","a","c","y">>), RLit(<<"d","e","t","a","i","l">>)>>)>>) >>,
    context_requires |-> <<  >>,
    weight |-> 100 ]

(* space opera *)
pat_space_opera ==
  [ name |-> <<"s","p","a","c","e"," ","o","p","e","r","a">>,
    keywords |-> << <<"e","m","p","i","r","e">>,
                    <<"g","a","l","a","c","t","i","c">>,
                    <<"f","l","e","e","t">>,
                    <<"s","t","a","r","s","h","i","p">>,
                    <<"i","n","t","e","r","s","t","e","l","l","a","r">>,
                    <<"r","e","b","e","l","l","i","o","n">>,
                    <<"p","l","a","n","e","t","s">>,
                    <<"a","l","i","e","n">>,
                    <<"a","l","i","e","n","s">>,
                    <<"f","e","d","e","r","a","t","i","o","n">>,
                    <<"c","a","p","t","a","i","n">>,
                    <<"c","r","e","w">>,
                    <<"s","p","a","c","e">>,
                    <<"b","a","t","t","l","e">> >>,
    phrases |-> << (* galactic\s+(empire|war|federation) *) RSeq(<<RLit(<<"g","a","l","a","c","t","i","c">>), RRep(1, -1, RIn(<<RCat("space")>>)), RAlt(<<RLit(<<"e","m","p","i","r","e">>), RLit(<<"w","a","r">>), RLit(<<"f","e","d","e","r","a","t","i","o","n">>)>>)>>),
                   (* across\s+the\s+(galaxy|stars) *) RSeq(<<RLit(<<"a","c","r","o","s","s">>), RRep(1, -1, RIn(<<RCat("space")>>)), RLit(<<"t","h","e">>), RRep(1, -1, RIn(<<RCat("space")>>)), RAlt(<<RLit(<<"g","a","l","a","x","y">>), RLit(<<"s","t","a","r","s">>)>>)>>),
                   (* space\s+battle *) RSeq(<<RLit(<<"s","p","a","c","e">>), RRep(1, -1, RIn(<<RCat("space")>>)), RLit(<<"b","a","t","t","l","e">>)>>),
                   (* alien\s+(race|species) *) RSeq(<<RLit(<<"a","l","i","e","n">>), RRep(1, -1, RIn(<<RCat("space")>>)), RAlt(<<RLit(<<"r","a","c","e">>), RLit(<<"s","p","e","c","i","e","s">>)>>)>>) >>,
    context_requires |-> <<  >>,
    weight |-> 90 ]

(* cyberpunk *)
pat_cyberpunk ==
  [ name |-> <<"c","y","b","e","r","p","u","n","k">>,
    keywords |-> << <<"n","e","o","n">>,
                    <<"c","y","b","e","r">>,
                    <<"h","a","c","k">>,
                    <<"h","a","c","k","e","r">>,
                    <<"c","o","r","p","o","r","a","t","e">>,
                    <<"d","y","s","t","o","p","i","a">>,
                    <<"a","u","g","m","e","n","t">>,
                    <<"i","m","p","l","a","n","t">>,
                    <<"v","i","r","t","u","a","l">>,
                    <<"a","i">>,
                    <<"a","n","d","r","o","i","d">>,
                    <<"t","o","k","y","o">>,
                    <<"m","e","g","a","c","i","t","y">>,
                    <<"t","e","c","h">>,
                    <<"f","u","t","u","r","i","s","t","i","c">>,
                    <<"d","i","g","i","t","a","l">> >>,
    phrases |-> << (* neon[\-\s]drenched *) RSeq(<<RLit(<<"n","e","o","n">>), RIn(<<RLit(<<"-">>), RCat("space")>>), RLit(<<"d","r","e","n","c","h","e","d">>)>>),
                   (* neon[\-\s]lit *) RSeq(<<RLit(<<"n","e","o","n">>), RIn(<<RLit(<<"-">>), RCat("space")>>), RLit(<<"l","i","t">>)>>),
                   (* ai\s+operating\s+system *) RSeq(<<RLit(<<"a","i">>), RRep(1, -1, RIn(<<RCat("space")>>)), RLit(<<"o","p","e","r","a","t","i","n","g">>), RRep(1, -1, RIn(<<RCat("space")>>)), RLit(<<"s","y","s","t","e","m">>)>>),
                   (* virtual\s+reality *) RSeq(<<RLit(<<"v","i","r","t","u","a","l">>), RRep(1, -1, RIn(<<RCat("space")>>)), RLit(<<"r","e","a","l","i","t","y">>)>>),
                   (* corporate\s+(control|dystopia) *) RSeq(<<RLit(<<"c","o","r","p","o","r","a","t","e">>), RRep(1, -1, RIn(<<RCat("space")>>)), RAlt(<<RLit(<<"c","o","n","t","r","o","l">>), RLit(<<"d","y","s","t","o","p","i","a">>)>>)>>),
                   (* high[\-\s]tech.*low[\-\s]life *) RSeq(<<RLit(<<"h","i","g","h">>), RIn(<<RLit(<<"-">>), RCat("space")>>), RLit(<<"t","e","c","h">>), RRep(0, -1, RAny), RLit(<<"l","o","w">>), RIn(<<RLit(<<"-">>), RCat("space")>>), RLit(<<"l","i","f","e">>)>>) >>,
    context_requires |-> <<  >>,
    weight |-> 100 ]

(* psychological horror *)
pat_psychological_horror ==
  [ name |-> <<"p","s","y","c","h","o","l","o","g","i","c","a","l"," ","h","o","r","r","o","r">>,
    keywords |-> << <<"d","r","e","a","d">>,
                    <<"t","e","r","r","o","r">>,
                    <<"f","e","a","r">>,
                    <<"p","a","r","a","n","o","i","a">>,
                    <<"n","i","g","h","t","m","a","r","e">>,
                    <<"h","a","l","l","u","c","i","n","a","t","i","o","n">>,
                    <<"d","i","s","t","u","r","b","i","n","g">>,
                    <<"u","n","s","e","t","t","l","i","n","g">>,
                    <<"c","r","e","e","p","i","n","g">> >>,
    phrases |-> << (* losing\s+(his|her|their)\s+grip *) RSeq(<<RLit(<<"l","o","s","i","n","g">>), RRep(1, -1, RIn(<<RCat("space")>>)), RAlt(<<RLit(<<"h","i","s">>), RLit(<<"h","e","r">>), RLit(<<"t","h","e","i","r">>)>>), RRep(1, -1, RIn(<<RCat("space")>>)), RLit(<<"g","r","i","p">>)>>),
                   (* can\'t\s+escape *) RSeq(<<RLit(<<"c","a","n","'","t">>), RRep(1, -1, RIn(<<RCat("space")>>)), RLit(<<"e","s","c","a","p","e">>)>>),
                   (* in\s+(his|her|their)\s+mind *) RSeq(<<RLit(<<"i","n">>), RRep(1, -1, RIn(<<RCat("space")>>)), RAlt(<<RLit(<<"h","i","s">>), RLit(<<"h","e","r">>), RLit(<<"t","h","e","i","r">>)>>), RRep(1, -1, RIn(<<RCat("space")>>)), RLit(<<"m","i","n","d">>)>>) >>,
    context_requires |-> << <<"h","o","r","r","o","r">>,
                            <<"s","c","a","r","y">>,
                            <<"f","e","a","r">>,
                            <<"t","e","r","r","o","r">> >>,
    weight |-> 90 ]

(* gothic *)
pat_gothic ==
  [ name |-> <<"g","o","t","h","i","c">>,
    keywords |-> << <<"m","a","n","s","i","o","n">>,
                    <<"v","i","c","t","o","r","i","a","n">>,
                    <<"o","l","d">>,
                    <<"a","n","c","i","e","n","t">>,
                    <<"e","s","t","a","t","e">>,
                    <<"m","a","n","o","r">>,
                    <<"c","o","r","r","i","d","o","r","s">>,
                    <<"w","h","i","s","p","e","r">>,
                    <<"w","h","i","s","p","e","r","s">>,
                    <<"s","e","c","r","e","t","s">>,
                    <<"d","a","r","k">>,
                    <<"p","a","s","t">>,
                    <<"f","a","m","i","l","y">>,
                    <<"c","u","r","s","e">>,
                    <<"h","a","u","n","t","e","d">>,
                    <<"a","t","m","o","s","p","h","e","r","e">>,
                    <<"b","r","o","o","d","i","n","g">>,
                    <<"d","e","c","a","y">> >>,
    phrases |-> << (* old\s+(victorian|mansion|manor|estate) *) RSeq(<<RLit(<<"o","l","d">>), RRep(1, -1, RIn(<<RCat("space")>>)), RAlt(<<RLit(<<"v","i","c","t","o","r","i","a","n">>), RLit(<<"m","a","n","s","i","o","n">>), RLit(<<"m","a","n","o","r">>), RLit(<<"e","s","t","a","t","e">>)>>)>>),
                   (* victorian\s+mansion *) RSeq(<<RLit(<<"v","i","c","t","o","r","i","a","n">>), RRep(1, -1, RIn(<<RCat("space")>>)), RLit(<<"m","a","n","s","i","o","n">>)>>),
                   (* seemed\s+to\s+breathe *) RSeq(<<RLit(<<"s","e","e","m","e","d">>), RRep(1, -1, RIn(<<RCat("space")>>)), RLit(<<"t","o">>), RRep(1, -1, RIn(<<RCat("space")>>)), RLit(<<"b","r","e","a","t","h","e">>)>>),
                   (* dark\s+past *) RSeq(<<RLit(<<"d","a","r","k">>), RRep(1, -1, RIn(<<RCat("space")>>)), RLit(<<"p","a","s","t">>)>>),
                   (* family\'?s?\s+(dark\s+)?secret *) RSeq(<<RLit(<<"f","a","m","i","l","y">>), RRep(0, 1, RLit(<<"'">>)), RRep(0, 1, RLit(<<"s">>)), RRep(1, -1, RIn(<<RCat("space")>>)), RRep(0, 1, RSeq(<<RLit(<<"d","a","r","k">>), RRep(1, -1, RIn(<<RCat("space")>>))>>)), RLit(<<"s","e","c","r","e","t">>)>>),
                   (* whispering\s+secrets *) RSeq(<<RLit(<<"w","h","i","s","p","e","r","i","n","g">>), RRep(1, -1, RIn(<<RCat("space")>>)), RLit(<<"s","e","c","r","e","t","s">>)>>),
                   (* corridors\s+whisper *) RSeq(<<RLit(<<"c","o","r","r","i","d","o","r","s">>), RRep(1, -1, RIn(<<RCat("space")>>)), RLit(<<"w","h","i","s","p","e","r">>)>>) >>,
    context_requires |-> <<  >>,
    weight |-> 100 ]

(* slasher *)
pat_slasher ==
  [ name |-> <<"s","l","a","s","h","e","r">>,
    keywords |-> << <<"k","i","l","l","e","r">>,
                    <<"m","u","r","d","e","r">>,
                    <<"s","t","a","l","k">>,
                    <<"s","t","a","l","k","s">>,
                    <<"m","a","s","k","e","d">>,
                    <<"m","a","s","k">>,
                    <<"v","i","c","t","i","m">>,
                    <<"v","i","c","t","i","m","s">>,
                    <<"t","e","e","n","a","g","e","r","s">>,
                    <<"t","e","e","n","s">>,
                    <<"c","a","m","p">>,
                    <<"c","a","b","i","n">>,
                    <<"w","o","o","d","s">>,
                    <<"k","n","i","f","e">>,
                    <<"b","l","o","o","d">>,
                    <<"c","h","a","s","e">>,
                    <<"s","u","r","v","i","v","e">>,
                    <<"s","u","r","v","i","v","a","l">> >>,
    phrases |-> << (* masked\s+killer *) RSeq(<<RLit(<<"m","a","s","k","e","d">>), RRep(1, -1, RIn(<<RCat("space")>>)), RLit(<<"k","i","l","l","e","r">>)>>),
                   (* stalks\s+(a\s+group|the|them) *) RSeq(<<RLit(<<"s","t","a","l","k","s">>), RRep(1, -1, RIn(<<RCat("space")>>)), RAlt(<<RSeq(<<RLit(<<"a">>), RRep(1, -1, RIn(<<RCat("space")>>)), RLit(<<"g","r","o","u","p">>)>>), RLit(<<"t","h","e">>), RLit(<<"t","h","e","m">>)>>)>>),
                   (* group\s+of\s+teenagers *) RSeq(<<RLit(<<"g","r","o","u","p">>), RRep(1, -1, RIn(<<RCat("space")>>)), RLit(<<"o","f">>), RRep(1, -1, RIn(<<RCat("space")>>)), RLit(<<"t","e","e","n","a","g","e","r","s">>)>>),
                   (* summer\s+camp *) RSeq(<<RLit(<<"s","u","m","m","e","r">>), RRep(1, -1, RIn(<<RCat("space")>>)), RLit(<<"c","a","m","p">>)>>),
                   (* one\s+by\s+one *) RSeq(<<RLit(<<"o","n","e">>), RRep(1, -1, RIn(<<RCat("space")>>)), RLit(<<"b","y">>), RRep(1, -1, RIn(<<RCat("space")>>)), RLit(<<"o","n","e">>)>>),
                   (* pick\s+them\s+off *) RSeq(<<RLit(<<"p","i","c","k">>), RRep(1, -1, RIn(<<RCat("space")>>)), RLit(<<"t","h","e","m">>), RRep(1, -1, RIn(<<RCat("space")>>)), RLit(<<"o","f","f">>)>>) >>,
    context_requires |-> <<  >>,
    weight |-> 100 ]

category_patterns ==
  << pat_enemies_to_lovers,
     pat_slow_burn,
     pat_second_chance,
     pat_espionage,
     pat_psychological,
     pat_legal_thriller,
     pat_hard_sci_fi,
     pat_space_opera,
     pat_cyberpunk,
     pat_psychological_horror,
     pat_gothic,
     pat_slasher >>

unmapped_indicators ==
  [ keywords |-> << <<"r","e","c","i","p","e">>,
                    <<"c","o","o","k">>,
                    <<"b","a","k","e">>,
                    <<"i","n","g","r","e","d","i","e","n","t">>,
                    <<"i","n","g","r","e","d","i","e","n","t","s">>,
                    <<"i","n","s","t","r","u","c","t","i","o","n","s">>,
                    <<"h","o","w","-","t","o">>,
                    <<"t","u","t","o","r","i","a","l">>,
                    <<"g","u","i","d","e">>,
                    <<"d","i","y">>,
                    <<"b","u","i","l","d">>,
                    <<"c","o","n","s","t","r","u","c","t">>,
                    <<"s","t","e","p","s">>,
                    <<"d","e","g","r","e","e","s">>,
                    <<"c","u","p","s">>,
                    <<"f","l","o","u","r">>,
                    <<"s","u","g","a","r">>,
                    <<"m","i","x">>,
                    <<"s","t","i","r">>,
                    <<"h","o","u","s","e","h","o","l","d">>,
                    <<"i","t","e","m","s">>,
                    <<"b","a","c","k","y","a","r","d">> >>,
    phrases |-> << (* how\s+to\s+(build|make|cook|bake) *) RSeq(<<RLit(<<"h","o","w">>), RRep(1, -1, RIn(<<RCat("space")>>)), RLit(<<"t","o">>), RRep(1, -1, RIn(<<RCat("space")>>)), RAlt(<<RLit(<<"b","u","i","l","d">>), RLit(<<"m","a","k","e">>), RLit(<<"c","o","o","k">>), RLit(<<"b","a","k","e">>)>>)>>),
                   (* step[\-\s]by[\-\s]step *) RSeq(<<RLit(<<"s","t","e","p">>), RIn(<<RLit(<<"-">>), RCat("space")>>), RLit(<<"b","y">>), RIn(<<RLit(<<"-">>), RCat("space")>>), RLit(<<"s","t","e","p">>)>>),
                   (* cups?\s+of\s+\w+ *) RSeq(<<RLit(<<"c","u","p">>), RRep(0, 1, RLit(<<"s">>)), RRep(1, -1, RIn(<<RCat("space")>>)), RLit(<<"o","f">>), RRep(1, -1, RIn(<<RCat("space")>>)), RRep(1, -1, RIn(<<RCat("word")>>))>>),
                   (* bake\s+at\s+\d+\s+degrees *) RSeq(<<RLit(<<"b","a","k","e">>), RRep(1, -1, RIn(<<RCat("space")>>)), RLit(<<"a","t">>), RRep(1, -1, RIn(<<RCat("space")>>)), RRep(1, -1, RIn(<<RCat("digit")>>)), RRep(1, -1, RIn(<<RCat("space")>>)), RLit(<<"d","e","g","r","e","e","s">>)>>),
                   (* mix\s+(with|together) *) RSeq(<<RLit(<<"m","i","x">>), RRep(1, -1, RIn(<<RCat("space")>>)), RAlt(<<RLit(<<"w","i","t","h">>), RLit(<<"t","o","g","e","t","h","e","r">>)>>)>>),
                   (* using\s+(basic\s+)?household\s+items *) RSeq(<<RLit(<<"u","s","i","n","g">>), RRep(1, -1, RIn(<<RCat("space")>>)), RRep(0, 1, RSeq(<<RLit(<<"b","a","s","i","c">>), RRep(1, -1, RIn(<<RCat("space")>>))>>)), RLit(<<"h","o","u","s","e","h","o","l","d">>), RRep(1, -1, RIn(<<RCat("space")>>)), RLit(<<"i","t","e","m","s">>)>>) >> ]

(***************************************************************************)
(* TextAnalyzer.  A float is held as an integer number of hundredths      *)
(* (1.0 is 100, 0.3 is 30); every product the code forms is a whole       *)
(* number of hundredths.                                                   *)
(***************************************************************************)
Scale == 100

FMul(a, b) == (a * b) \div Scale

KeywordScore == 100

PhraseScore == 200

ContextPenalty == 30

ConfidenceDivisor == 500

\* re.sub(r'[^\w\s\'-]', ' ', text)
sub_punctuation(text) ==
  [i \in 1..Len(text) |->
     IF IsWordChar(text[i]) \/ text[i] \in Whitespace \/ text[i] \in {"'", "-"}
     THEN text[i] ELSE " "]

\* re.sub(r'\s+', ' ', text)
RECURSIVE sub_whitespace(_)
sub_whitespace(text) ==
  IF Len(text) = 0 THEN <<>>
  ELSE IF text[1] \in Whitespace
  THEN LET rest == {i \in 2..Len(text) : text[i] \notin Whitespace}
       IN IF rest = {} THEN <<" ">>
          ELSE <<" ">> \o sub_whitespace(SubSeq(text, MinOf(rest), Len(text)))
  ELSE <<text[1]>> \o sub_whitespace(Tail(text))

\* the text stripped before the substitutions instead of after them
preprocess_strip_first(text) == sub_whitespace(sub_punctuation(str_strip(str_lower(text))))

\* lines 249-252
preprocess(text) == str_strip(sub_whitespace(sub_punctuation(str_lower(text))))

lower_tags(tags) == [i \in 1..Len(tags) |-> str_lower(tags[i])]

\* `x in xs' for a list xs
InList(x, xs) == \E i \in 1..Len(xs) : xs[i] = x

\* any(ctx in combined_text for ctx in context_required)
context_found(context_required, combined_text) ==
  \E i \in 1..Len(context_required) : str_contains(combined_text, context_required[i])

\* a phrase hit counted like a keyword hit
raw_score_flat(matched_keywords, matched_phrases) ==
  Len(matched_keywords) * KeywordScore + Len(matched_phrases) * KeywordScore

\* the score of one category after its keyword and phrase loops
raw_score(matched_keywords, matched_phrases) ==
  Len(matched_keywords) * KeywordScore + Len(matched_phrases) * PhraseScore

\* the context check left out
apply_context_never(score, patterns, combined_text) == score

\* the context penalty
apply_context(score, patterns, combined_text) ==
  IF Len(patterns.context_requires) > 0
     /\ ~context_found(patterns.context_requires, combined_text)
  THEN FMul(score, ContextPenalty)
  ELSE score

\* the keywords looked for in the snippet followed by the tags
score_category_in_combined_text(patterns, processed_text, combined_text) ==
  LET matched_keywords ==
        SelectSeq(patterns.keywords, LAMBDA keyword : str_contains(combined_text, keyword))
      matched_phrases ==
        SelectSeq(patterns.phrases, LAMBDA phrase_pattern : re_search(phrase_pattern, processed_text))
      score == FMul(apply_context(raw_score(matched_keywords, matched_phrases),
                                  patterns, combined_text),
                    patterns.weight)
  IN [category |-> patterns.name, score |-> score,
      matched_keywords |-> matched_keywords, matched_phrases |-> matched_phrases]

\* one pass of the loop over category_patterns
score_category(patterns, processed_text, combined_text) ==
  LET matched_keywords ==
        SelectSeq(patterns.keywords, LAMBDA keyword : str_contains(processed_text, keyword))
      matched_phrases ==
        SelectSeq(patterns.phrases, LAMBDA phrase_pattern : re_search(phrase_pattern, processed_text))
      score == FMul(apply_context(raw_score(matched_keywords, matched_phrases),
                                  patterns, combined_text),
                    patterns.weight)
  IN [category |-> patterns.name, score |-> score,
      matched_keywords |-> matched_keywords, matched_phrases |-> matched_phrases]

\* the dict is held as the list of its entries in insertion order
calculate_category_scores(text, tags) ==
  LET processed_text == preprocess(text)
      processed_tags == lower_tags(tags)
      combined_text == processed_text \o <<" ">> \o str_join(<<" ">>, processed_tags)
      all == [i \in 1..Len(category_patterns) |->
                score_category(category_patterns[i], processed_text, combined_text)]
  IN SelectSeq(all, LAMBDA entry : entry.score > 0)

\* a phrase hit alone taken as enough
unmapped_decision_phrase_alone(keyword_count, phrase_count) ==
  (keyword_count >= 3) \/ (phrase_count >= 1)

unmapped_decision(keyword_count, phrase_count) ==
  (keyword_count >= 3) \/ (phrase_count >= 1 /\ keyword_count >= 1)

\* a phrase counted like a keyword
unmapped_confidence_flat(keyword_count, phrase_count) ==
  LET c == ((keyword_count + phrase_count) * Scale * Scale) \div ConfidenceDivisor
  IN IF c < Scale THEN c ELSE Scale

\* line 364: min((keyword_count + phrase_count * 2) / 5.0, 1.0)
unmapped_confidence(keyword_count, phrase_count) ==
  LET c == ((keyword_count + phrase_count * 2) * Scale * Scale) \div ConfidenceDivisor
  IN IF c < Scale THEN c ELSE Scale

check_unmapped(text, tags) ==
  LET processed_text == preprocess(text)
      processed_tags == lower_tags(tags)
      matched_keywords ==
        SelectSeq(unmapped_indicators.keywords,
                  LAMBDA keyword : str_contains(processed_text, keyword)
                                   \/ InList(keyword, processed_tags))
      matched_phrases ==
        SelectSeq(unmapped_indicators.phrases,
                  LAMBDA phrase_pattern : re_search(phrase_pattern, processed_text))
  IN [is_unmapped |-> unmapped_decision(Len(matched_keywords), Len(matched_phrases)),
      matched_keywords |-> matched_keywords,
      matched_phrases |-> matched_phrases,
      confidence |-> unmapped_confidence(Len(matched_keywords), Len(matched_phrases))]


(***************************************************************************)
(* TaxonomyLoader.  raw_taxonomy is the nested JSON object, held as the   *)
(* list of its items in file order:                                        *)
(*   << [root, genres: << [parent, subcategories: << name, ... >>] >>] >>  *)
(* A dict is a function on its set of keys.                                *)
(***************************************************************************)
EmptyDict == [k \in {} |-> k]

\* d[key] = value
dict_set(d, key, value) == (key :> value) @@ d

\* lines 42-49: the inner loop over the subcategories of one parent
RECURSIVE build_subcategories(_, _, _, _, _)
build_subcategories(maps, root_category, parent_category, subcategories, n) ==
  IF n > Len(subcategories) THEN maps
  ELSE LET subcategory == subcategories[n]
           key == str_lower(subcategory)
           next ==
             [maps EXCEPT
                !.subcategory_map =
                   dict_set(@, key, [root |-> root_category,
                                     parent |-> parent_category,
                                     subcategory |-> subcategory]),
                !.all_subcategories = @ \cup {key}]
       IN build_subcategories(next, root_category, parent_category, subcategories, n + 1)

\* lines 40-49: the loop over the parents of one root
RECURSIVE build_genres(_, _, _, _)
build_genres(maps, root_category, genres, n) ==
  IF n > Len(genres) THEN maps
  ELSE LET parent_category == genres[n].parent
           subcategories == genres[n].subcategories
           with_parent ==
             [maps EXCEPT
                !.parent_map =
                   dict_set(@, str_lower(parent_category),
                            [k \in 1..Len(subcategories) |-> str_lower(subcategories[k])])]
       IN build_genres(build_subcategories(with_parent, root_category, parent_category,
                                           subcategories, 1),
                       root_category, genres, n + 1)

\* lines 39-49: the loop over the roots
RECURSIVE build_roots(_, _, _)
build_roots(maps, raw, n) ==
  IF n > Len(raw) THEN maps
  ELSE build_roots(build_genres(maps, raw[n].root, raw[n].genres, 1), raw, n + 1)

build_maps(raw) ==
  build_roots([subcategory_map |-> EmptyDict, parent_map |-> EmptyDict,
               all_subcategories |-> {}], raw, 1)

\* get_full_path looking the name up as it is given
get_full_path_exact_key(tax, subcategory) ==
  IF subcategory \notin DOMAIN tax.subcategory_map THEN None
  ELSE LET info == tax.subcategory_map[subcategory]
       IN info.root \o <<" ", ">", " ">> \o info.parent \o <<" ", ">", " ">> \o info.subcategory

\* a loaded TaxonomyLoader object is the record tax of its three tables
get_full_path(tax, subcategory) ==
  LET key == str_lower(subcategory)
  IN IF key \notin DOMAIN tax.subcategory_map THEN None
     ELSE LET info == tax.subcategory_map[key]
          IN info.root \o <<" ", ">", " ">> \o info.parent \o <<" ", ">", " ">> \o info.subcategory

is_valid_subcategory(tax, name) == str_lower(name) \in tax.all_subcategories

\* list(set): the elements of a set in some order
RECURSIVE list_of_set(_)
list_of_set(S) ==
  IF S = {} THEN <<>>
  ELSE LET x == CHOOSE y \in S : TRUE IN <<x>> \o list_of_set(S \ {x})

get_all_subcategories(tax) == list_of_set(tax.all_subcategories)

(***************************************************************************)
(* InferenceEngine                                                         *)
(***************************************************************************)
ArrowSep == <<" ", ">", " ">>

UNMAPPED == <<"U","N","M","A","P","P","E","D">>

UNMAPPED_SENTINEL == <<"[","U","N","M","A","P","P","E","D","]">>

\* get_hierarchy_info(subcategory) is absent
hierarchy_info_missing(tax, subcategory) ==
  str_lower(subcategory) \notin DOMAIN tax.subcategory_map

get_hierarchy_info(tax, subcategory) == tax.subcategory_map[str_lower(subcategory)]

build_category_list(tax) ==
  LET subs == get_all_subcategories(tax)
      found == SelectSeq(subs, LAMBDA subcategory : ~hierarchy_info_missing(tax, subcategory))
  IN sorted([k \in 1..Len(found) |->
               LET info == get_hierarchy_info(tax, found[k])
               IN info.parent \o ArrowSep \o info.subcategory])

\* valid_cat.split(' > ')[-1]
last_part(valid_cat) ==
  LET parts == str_split(valid_cat, ArrowSep) IN parts[Len(parts)]

\* lines 135-140: the loop over the lines of the reply
RECURSIVE parse_lines(_, _, _)
parse_lines(lines, n, acc) ==
  IF n > Len(lines) THEN acc
  ELSE LET line == str_strip(lines[n])
           value == LET parts == str_split1(line, <<":">>) IN str_strip(parts[2])
       IN IF str_startswith(str_lower(line), <<"c","a","t","e","g","o","r","y",":">>)
          THEN parse_lines(lines, n + 1, [acc EXCEPT !.category = value])
          ELSE IF str_startswith(str_lower(line), <<"r","e","a","s","o","n","i","n","g",":">>)
          THEN parse_lines(lines, n + 1, [acc EXCEPT !.reasoning = value])
          ELSE parse_lines(lines, n + 1, acc)

\* \b at position i of s: between s[i-1] and s[i]
word_boundary(s, i) ==
  (i > 1 /\ IsWordChar(s[i - 1])) # (i <= Len(s) /\ IsWordChar(s[i]))

\* \b(alt)\b matches s at position i, ignoring case
alt_matches_at(s, alt, i) ==
  /\ word_boundary(s, i)
  /\ i + Len(alt) - 1 <= Len(s)
  /\ str_lower(SubSeq(s, i, i + Len(alt) - 1)) = str_lower(alt)
  /\ word_boundary(s, i + Len(alt))

\* lines 143-147: re.search of \b(UNMAPPED|sub1|sub2|...)\b, IGNORECASE;
\* the leftmost position wins, and at it the first alternative that matches
search_known_category(response_text, valid_categories) ==
  LET all_subcats == [k \in 1..Len(valid_categories) |-> last_part(valid_categories[k])]
      \* '|'.join([]) is the empty string: an empty alternative
      alts == <<UNMAPPED>> \o (IF Len(all_subcats) = 0 THEN << <<>> >> ELSE all_subcats)
      hits == {i \in 1..(Len(response_text) + 1) :
                 \E k \in 1..Len(alts) : alt_matches_at(response_text, alts[k], i)}
  IN IF hits = {} THEN None
     ELSE LET i == MinOf(hits)
              k == MinOf({j \in 1..Len(alts) : alt_matches_at(response_text, alts[j], i)})
          IN SubSeq(response_text, i, i + Len(alts[k]) - 1)

parse_response(response_text, valid_categories) ==
  LET lines == str_split(str_strip(response_text), <<"\n">>)
      parsed == parse_lines(lines, 1, [category |-> None, reasoning |-> <<>>])
  IN IF parsed.category = None
     THEN [parsed EXCEPT !.category = search_known_category(response_text, valid_categories)]
     ELSE parsed

\* validate_category returning the reply's own spelling of a whitelisted name
validate_category_reply_spelling(tax, valid_categories, category) ==
  IF category = None THEN None
  ELSE LET category_clean == str_strip(str_strip_chars(category, {"[", "]"}))
       IN IF str_upper(category_clean) = UNMAPPED THEN UNMAPPED
          ELSE IF is_valid_subcategory(tax, category_clean) THEN category_clean
          ELSE None

\* validate_category comparing the token without upper()
validate_category_exact_token(tax, valid_categories, category) ==
  IF category = None THEN None
  ELSE LET category_clean == str_strip(str_strip_chars(category, {"[", "]"}))
           hits == {k \in 1..Len(valid_categories) :
                      str_lower(last_part(valid_categories[k])) = str_lower(category_clean)}
       IN IF category_clean = UNMAPPED THEN UNMAPPED
          ELSE IF hits # {}
          THEN last_part(valid_categories[MinOf(hits)])
          ELSE IF is_valid_subcategory(tax, category_clean)
                  /\ ~hierarchy_info_missing(tax, category_clean)
          THEN get_hierarchy_info(tax, category_clean).subcategory
          ELSE None

validate_category(tax, valid_categories, category) ==
  IF category = None THEN None
  ELSE LET category_clean == str_strip(str_strip_chars(category, {"[", "]"}))
           hits == {k \in 1..Len(valid_categories) :
                      str_lower(last_part(valid_categories[k])) = str_lower(category_clean)}
       IN IF str_upper(category_clean) = UNMAPPED THEN UNMAPPED
          ELSE IF hits # {}
          THEN last_part(valid_categories[MinOf(hits)])
          ELSE IF is_valid_subcategory(tax, category_clean)
                  /\ ~hierarchy_info_missing(tax, category_clean)
          THEN get_hierarchy_info(tax, category_clean).subcategory
          ELSE None

\* MappingResult.__init__
MappingResult(case_id, user_tags, snippet, mapped_category, full_path, reasoning_text, is_unmapped, is_error) ==
  [case_id |-> case_id, user_tags |-> user_tags, snippet |-> snippet,
   mapped_category |-> mapped_category, full_path |-> full_path,
   reasoning |-> reasoning_text, is_unmapped |-> is_unmapped, is_error |-> is_error]

\* to_dict emitting full_path whatever is_unmapped is
to_dict_keeping_path(r) ==
  [id |-> r.case_id, user_tags |-> r.user_tags, snippet |-> r.snippet,
   mapped_category |-> IF ~r.is_unmapped THEN r.mapped_category ELSE UNMAPPED_SENTINEL,
   full_path |-> r.full_path,
   reasoning |-> r.reasoning, is_unmapped |-> r.is_unmapped, is_error |-> r.is_error]

to_dict(r) ==
  [id |-> r.case_id, user_tags |-> r.user_tags, snippet |-> r.snippet,
   mapped_category |-> IF ~r.is_unmapped THEN r.mapped_category ELSE UNMAPPED_SENTINEL,
   full_path |-> IF ~r.is_unmapped THEN r.full_path ELSE None,
   reasoning |-> r.reasoning, is_unmapped |-> r.is_unmapped, is_error |-> r.is_error]

\* f'{x}' for an Optional[str]
format_optional(x) == IF x = None THEN <<"N","o","n","e">> ELSE x

\* lines 206-241: the result map_single returns after validation
classified_result(tax, case, raw_category, reasoning_text, validated_category) ==
  IF validated_category = None
  THEN MappingResult(case.id, case.user_tags, case.snippet, None, None,
         <<"L","L","M"," ","r","e","s","p","o","n","s","e"," ","c","o","u","l","d"," ",
           "n","o","t"," ","b","e"," ","v","a","l","i","d","a","t","e","d","."," ",
           "R","a","w",":"," ">> \o format_optional(raw_category),
         TRUE, TRUE)
  ELSE IF validated_category = UNMAPPED
  THEN MappingResult(case.id, case.user_tags, case.snippet, None, None,
         IF Len(reasoning_text) > 0 THEN reasoning_text
         ELSE <<"C","o","n","t","e","n","t"," ","d","o","e","s"," ","n","o","t"," ",
                "f","i","t"," ","t","h","e"," ","f","i","c","t","i","o","n"," ",
                "t","a","x","o","n","o","m","y",".">>,
         TRUE, FALSE)
  ELSE MappingResult(case.id, case.user_tags, case.snippet, validated_category,
         get_full_path(tax, validated_category),
         IF Len(reasoning_text) > 0 THEN reasoning_text
         ELSE <<"C","l","a","s","s","i","f","i","e","d"," ","b","a","s","e","d"," ",
                "o","n"," ","s","t","o","r","y"," ","c","o","n","t","e","n","t",".">>,
         FALSE, FALSE)

\* the except clause forgetting to flag the result as an error
error_result_not_flagged(case, e) ==
  MappingResult(case.id, case.user_tags, case.snippet, None, None,
    <<"E","r","r","o","r"," ","d","u","r","i","n","g"," ","c","l","a","s","s","i","f",
      "i","c","a","t","i","o","n",":"," ">> \o e,
    TRUE, FALSE)

\* lines 243-253: the result the except clause returns for the exception e
error_result(case, e) ==
  MappingResult(case.id, case.user_tags, case.snippet, None, None,
    <<"E","r","r","o","r"," ","d","u","r","i","n","g"," ","c","l","a","s","s","i","f",
      "i","c","a","t","i","o","n",":"," ">> \o e,
    TRUE, TRUE)


(***************************************************************************)
(* State                                                                   *)
(***************************************************************************)
VARIABLES
  raw_taxonomy,        \* TaxonomyLoader.raw_taxonomy
  taxonomy,            \* TaxonomyLoader: subcategory_map, parent_map, all_subcategories
  valid_categories,    \* InferenceEngine.valid_categories
  cases,               \* the argument of map_batch
  pc,                  \* the statement the program is at
  i,                   \* map_batch: the position of the loop in cases
  prompt,              \* map_single: prompt
  response_text,       \* map_single: response_text
  parsed,              \* map_single: raw_category, reasoning
  validated_category,  \* map_single: validated_category
  fault,               \* the exception raised, str(e); None when there is none
  result,              \* the MappingResult map_single returns
  results,             \* map_batch: results
  out_results,         \* write_json: output_data['results']
  summary,             \* _build_summary: total, mapped, unmapped, errors, ...
  text,                \* the snippet given to the TextAnalyzer
  tags,                \* the tags given to the TextAnalyzer
  scores,              \* what calculate_category_scores returned
  unmapped_check,      \* what check_unmapped returned
  query,               \* the TaxonomyLoader method called last and its argument
  answer               \* what that call returned

vars == <<raw_taxonomy, taxonomy, valid_categories, cases, pc, i, prompt, response_text,
          parsed, validated_category, fault, result, results, out_results, summary,
          text, tags, scores, unmapped_check, query, answer>>

loader_vars == <<raw_taxonomy, taxonomy>>

lookup_vars == <<query, answer>>

local_vars == <<prompt, response_text, parsed, validated_category>>

output_vars == <<out_results, summary>>

analyzer_vars == <<text, tags, scores, unmapped_check>>

(***************************************************************************)
(* Inputs                                                                  *)
(***************************************************************************)
MaxCases == 2

\* a taxonomy file
HorrorThrillerTaxonomy ==
  << [root |-> <<"F","i","c","t","i","o","n">>,
      genres |-> << [parent |-> <<"H","o","r","r","o","r">>,
                     subcategories |-> << <<"G","o","t","h","i","c">>,
                                          <<"P","s","y","c","h","o","l","o","g","i","c","a","l"," ","H","o","r","r","o","r">> >>],
                    [parent |-> <<"T","h","r","i","l","l","e","r">>,
                     subcategories |-> << <<"P","s","y","c","h","o","l","o","g","i","c","a","l">> >>] >>] >>

EngineTaxonomies == {HorrorThrillerTaxonomy}

\* the cases of a batch file
CaseSet ==
  { [id |-> 1, user_tags |-> << <<"h","o","r","r","o","r">>, <<"m","y","s","t","e","r","y">> >>,
     snippet |-> <<"T","h","e"," ","o","l","d"," ","V","i","c","t","o","r","i","a","n"," ","m","a","n","s","i","o","n",".">>],
    [id |-> 2, user_tags |-> << <<"r","e","c","i","p","e">> >>,
     snippet |-> <<"M","i","x"," ","f","l","o","u","r"," ","w","i","t","h"," ","s","u","g","a","r",","," ","t","h","e","n"," ","b","a","k","e",".">>],
    [id |-> 3, user_tags |-> <<>>,
     snippet |-> <<"H","e","l","l","o",".">>] }

RECURSIVE SeqsUpTo(_, _)
SeqsUpTo(S, n) ==
  IF n = 0 THEN {<<>>}
  ELSE LET shorter == SeqsUpTo(S, n - 1)
       IN shorter \cup {Append(s, x) : s \in {t \in shorter : Len(t) = n - 1}, x \in S}

\* response.choices[0].message.content: what the completion service may answer
Replies ==
  { <<"C","a","t","e","g","o","r","y",":"," ","G","o","t","h","i","c","\n","R","e","a","s","o","n","i","n","g",":"," ","A"," ","d","a","r","k"," ","h","o","u","s","e",".">>,
    <<"c","a","t","e","g","o","r","y",":"," ","[","g","o","t","h","i","c","]">>,
    <<"C","a","t","e","g","o","r","y",":"," ","U","N","M","A","P","P","E","D","\n","R","e","a","s","o","n","i","n","g",":"," ","N","o","t"," ","G","o","t","h","i","c",".">>,
    <<" ","C","A","T","E","G","O","R","Y",":"," ","[","u","n","m","a","p","p","e","d","]"," ">>,
    <<"C","a","t","e","g","o","r","y",":"," ","W","e","s","t","e","r","n">>,
    <<"I","t"," ","i","s"," ","p","s","y","c","h","o","l","o","g","i","c","a","l"," ","h","o","r","r","o","r",".">>,
    <<"n","o"," ","i","d","e","a">>,
    None }

\* str(e) of the exceptions the completion call raises
ApiFaults == { <<"C","o","n","n","e","c","t","i","o","n"," ","e","r","r","o","r",".">> }

\* str(e) of None.strip()
NoneStripFault == <<"'","N","o","n","e","T","y","p","e","'"," ","o","b","j","e","c","t"," ","h","a","s"," ","n","o"," ","a","t","t","r","i","b","u","t","e"," ","'","s","t","r","i","p","'">>

\* str(e) of the missing attribute MappingResult.confidence_score
NoConfidenceFault == <<"'","M","a","p","p","i","n","g","R","e","s","u","l","t","'"," ","o","b","j","e","c","t"," ","h","a","s"," ","n","o"," ","a","t","t","r","i","b","u","t","e"," ","'","c","o","n","f","i","d","e","n","c","e","_","s","c","o","r","e","'">>

NoPrompt == [categories_str |-> <<>>, tags_str |-> <<>>, snippet |-> <<>>]

NoParse == [category |-> None, reasoning |-> <<>>]

NoResult == MappingResult(0, <<>>, <<>>, None, None, <<>>, FALSE, FALSE)

NoSummary ==
  [total_cases |-> 0, successfully_mapped |-> 0, unmapped |-> 0, errors |-> 0,
   average_confidence |-> 0, category_distribution |-> EmptyDict]

NoCheck == [is_unmapped |-> FALSE, matched_keywords |-> <<>>, matched_phrases |-> <<>>,
            confidence |-> 0]

NoCall == [method |-> "", arg |-> <<>>]

\* no method of the TaxonomyLoader is called from outside the engine
LookupIdle ==
  /\ query = NoCall
  /\ answer = None

\* the TextAnalyzer is not called
AnalyzerIdle ==
  /\ text = <<>>
  /\ tags = <<>>
  /\ scores = <<>>
  /\ unmapped_check = NoCheck

(***************************************************************************)
(* main: the taxonomy is loaded, the engine constructed, the cases read    *)
(***************************************************************************)
Init ==
  /\ raw_taxonomy \in EngineTaxonomies
  /\ taxonomy = build_maps(raw_taxonomy)
  /\ valid_categories = build_category_list(taxonomy)
  /\ cases \in SeqsUpTo(CaseSet, MaxCases)
  /\ pc = "main"
  /\ i = 0
  /\ prompt = NoPrompt
  /\ response_text = None
  /\ parsed = NoParse
  /\ validated_category = None
  /\ fault = None
  /\ result = NoResult
  /\ results = <<>>
  /\ out_results = <<>>
  /\ summary = NoSummary
  /\ AnalyzerIdle
  /\ LookupIdle

(***************************************************************************)
(* InferenceEngine.map_batch and map_single                                *)
(***************************************************************************)
\* line 265
MapBatch ==
  /\ pc = "main"
  /\ results' = <<>>
  /\ i' = 1
  /\ pc' = "loop"
  /\ UNCHANGED <<loader_vars, lookup_vars, valid_categories, cases, local_vars, fault, result,
                 output_vars, analyzer_vars>>

\* lines 266-272: the next case; map_single is entered
LoopNext ==
  /\ pc = "loop"
  /\ i <= Len(cases)
  /\ prompt' = NoPrompt
  /\ response_text' = None
  /\ parsed' = NoParse
  /\ validated_category' = None
  /\ fault' = None
  /\ pc' = "build_prompt"
  /\ UNCHANGED <<loader_vars, lookup_vars, valid_categories, cases, i, result, results,
                 output_vars, analyzer_vars>>

\* line 274
LoopExit ==
  /\ pc = "loop"
  /\ i > Len(cases)
  /\ pc' = "returned"
  /\ UNCHANGED <<loader_vars, lookup_vars, valid_categories, cases, i, local_vars, fault, result,
                 results, output_vars, analyzer_vars>>

\* lines 100-121: the prompt, held as the three values the template embeds
build_prompt(categories, user_tags, snippet) ==
  [categories_str |-> categories,
   tags_str |-> str_join(<<",", " ">>, user_tags),
   snippet |-> snippet]

\* line 191
BuildPrompt ==
  /\ pc = "build_prompt"
  /\ prompt' = build_prompt(valid_categories, cases[i].user_tags, cases[i].snippet)
  /\ pc' = "call"
  /\ UNCHANGED <<loader_vars, lookup_vars, valid_categories, cases, i, response_text, parsed,
                 validated_category, fault, result, results, output_vars, analyzer_vars>>

\* lines 193-200: the completion service answers
CallCompletion ==
  /\ pc = "call"
  /\ \E reply \in Replies : response_text' = reply
  /\ pc' = "parse"
  /\ UNCHANGED <<loader_vars, lookup_vars, valid_categories, cases, i, prompt, parsed,
                 validated_category, fault, result, results, output_vars, analyzer_vars>>

\* lines 193-198: the completion call raises
CallFault ==
  /\ pc = "call"
  /\ \E e \in ApiFaults : fault' = e
  /\ pc' = "except"
  /\ UNCHANGED <<loader_vars, lookup_vars, valid_categories, cases, i, local_vars, result, results,
                 output_vars, analyzer_vars>>

\* line 202
ParseResponse ==
  /\ pc = "parse"
  /\ response_text # None
  /\ parsed' = parse_response(response_text, valid_categories)
  /\ pc' = "validate"
  /\ UNCHANGED <<loader_vars, lookup_vars, valid_categories, cases, i, prompt, response_text,
                 validated_category, fault, result, results, output_vars, analyzer_vars>>

\* line 133: the content of the reply is None
ParseFault ==
  /\ pc = "parse"
  /\ response_text = None
  /\ fault' = NoneStripFault
  /\ pc' = "except"
  /\ UNCHANGED <<loader_vars, lookup_vars, valid_categories, cases, i, local_vars, result, results,
                 output_vars, analyzer_vars>>

\* line 204
Validate ==
  /\ pc = "validate"
  /\ validated_category' = validate_category(taxonomy, valid_categories, parsed.category)
  /\ pc' = "classified"
  /\ UNCHANGED <<loader_vars, lookup_vars, valid_categories, cases, i, prompt, response_text, parsed,
                 fault, result, results, output_vars, analyzer_vars>>

\* lines 206-241
ReturnResult ==
  /\ pc = "classified"
  /\ result' = classified_result(taxonomy, cases[i], parsed.category, parsed.reasoning,
                                 validated_category)
  /\ pc' = "append"
  /\ UNCHANGED <<loader_vars, lookup_vars, valid_categories, cases, i, local_vars, fault, results,
                 output_vars, analyzer_vars>>

\* lines 243-253
Except ==
  /\ pc = "except"
  /\ result' = error_result(cases[i], fault)
  /\ pc' = "append"
  /\ UNCHANGED <<loader_vars, lookup_vars, valid_categories, cases, i, local_vars, fault, results,
                 output_vars, analyzer_vars>>

\* a loop that keeps only the results that are no errors
append_result_skipping_errors(rs, r) == IF r.is_error THEN rs ELSE Append(rs, r)

\* line 273
append_result(rs, r) == Append(rs, r)

AppendResult ==
  /\ pc = "append"
  /\ results' = append_result(results, result)
  /\ i' = i + 1
  /\ pc' = "loop"
  /\ UNCHANGED <<loader_vars, lookup_vars, valid_categories, cases, local_vars, fault, result,
                 output_vars, analyzer_vars>>


(***************************************************************************)
(* OutputHandler                                                           *)
(***************************************************************************)
\* sum(1 for r in results if not r.is_unmapped and not r.is_error)
count_mapped(rs) == Cardinality({k \in 1..Len(rs) : ~rs[k].is_unmapped /\ ~rs[k].is_error})

\* sum(1 for r in results if r.is_unmapped)
count_unmapped(rs) == Cardinality({k \in 1..Len(rs) : rs[k].is_unmapped})

\* sum(1 for r in results if r.is_error)
count_errors(rs) == Cardinality({k \in 1..Len(rs) : rs[k].is_error})

\* r.confidence_score: MappingResult.__init__ sets no such attribute
has_confidence_score(r) == "confidence_score" \in DOMAIN r

\* lines 120-124
category_counts(rs) ==
  LET counted == {k \in 1..Len(rs) :
                    /\ rs[k].mapped_category # None
                    /\ Len(rs[k].mapped_category) > 0
                    /\ ~rs[k].is_unmapped
                    /\ ~rs[k].is_error}
  IN [cat \in {rs[k].mapped_category : k \in counted} |->
        Cardinality({k \in counted : rs[k].mapped_category = cat})]

\* lines 61-69: print_results; format_console_result reads confidence_score
PrintResults ==
  /\ pc = "returned"
  /\ IF \E k \in 1..Len(results) : ~has_confidence_score(results[k])
     THEN /\ fault' = NoConfidenceFault
          /\ pc' = "crashed"
          /\ UNCHANGED summary
     ELSE /\ summary' = [NoSummary EXCEPT !.total_cases = Len(results),
                                          !.successfully_mapped = count_mapped(results),
                                          !.unmapped = count_unmapped(results),
                                          !.errors = count_errors(results)]
          /\ pc' = "printed"
          /\ UNCHANGED fault
  /\ UNCHANGED <<loader_vars, lookup_vars, valid_categories, cases, i, local_vars, result, results,
                 out_results, analyzer_vars>>

\* line 103: write_json serialises the results
WriteJson ==
  /\ pc \in {"returned", "printed"}
  /\ out_results' = [k \in 1..Len(results) |-> to_dict(results[k])]
  /\ pc' = "build_summary"
  /\ UNCHANGED <<loader_vars, lookup_vars, valid_categories, cases, i, local_vars, fault, result,
                 results, summary, analyzer_vars>>

\* lines 114-117
SummaryCounts ==
  /\ pc = "build_summary"
  /\ summary' = [NoSummary EXCEPT !.total_cases = Len(results),
                                  !.successfully_mapped = count_mapped(results),
                                  !.unmapped = count_unmapped(results),
                                  !.errors = count_errors(results)]
  /\ pc' = "summary_average"
  /\ UNCHANGED <<loader_vars, lookup_vars, valid_categories, cases, i, local_vars, fault, result,
                 results, out_results, analyzer_vars>>

\* line 118: the sum reads r.confidence_score of every result
SummaryAverageFault ==
  /\ pc = "summary_average"
  /\ \E k \in 1..Len(results) : ~has_confidence_score(results[k])
  /\ fault' = NoConfidenceFault
  /\ pc' = "crashed"
  /\ UNCHANGED <<loader_vars, lookup_vars, valid_categories, cases, i, local_vars, result, results,
                 output_vars, analyzer_vars>>

\* lines 118-133 and 107-110: no result to average; the file is written
SummaryReturn ==
  /\ pc = "summary_average"
  /\ \A k \in 1..Len(results) : has_confidence_score(results[k])
  /\ summary' = [summary EXCEPT !.average_confidence = 0,
                                !.category_distribution = category_counts(results)]
  /\ pc' = "written"
  /\ UNCHANGED <<loader_vars, lookup_vars, valid_categories, cases, i, local_vars, fault, result,
                 results, out_results, analyzer_vars>>

BatchNext ==
  \/ MapBatch
  \/ LoopNext
  \/ LoopExit
  \/ BuildPrompt
  \/ CallCompletion
  \/ CallFault
  \/ ParseResponse
  \/ ParseFault
  \/ Validate
  \/ ReturnResult
  \/ Except
  \/ AppendResult

Next ==
  \/ BatchNext
  \/ PrintResults
  \/ WriteJson
  \/ SummaryCounts
  \/ SummaryAverageFault
  \/ SummaryReturn

Spec == Init /\ [][Next]_vars

BatchPcs ==
  {"main", "loop", "build_prompt", "call", "parse", "validate", "classified", "except",
   "append"}

OutputPcs == {"returned", "printed", "build_summary", "summary_average", "written", "crashed"}

\* the interpreter leaves the statement of map_batch it is at: map_batch and
\* map_single are straight-line code on one thread, and the completion call
\* answers or raises
Statement == pc \in BatchPcs /\ pc' \in (BatchPcs \cup OutputPcs) \ {pc}

FairSpec == Spec /\ WF_pc(Statement)


(***************************************************************************)
(* TextAnalyzer called on its own: check_unmapped and                      *)
(* calculate_category_scores over snippets put together from fragments     *)
(***************************************************************************)
MaxFragments == 2

\* the j-th smallest element of a set of numbers
Nth(S, j) == CHOOSE x \in S : Cardinality({y \in S : y < x}) = j - 1

\* the elements of list xs at the positions in hits, in the order of xs
InDefinitionOrder(xs, hits) == [j \in 1..Cardinality(hits) |-> xs[Nth(hits, j)]]

\* sentences a snippet is put together from
Fragments ==
  << <<"M","i","x"," ","f","l","o","u","r",",">>,
    <<"s","u","g","a","r">>,
    <<"H","o","w"," ","t","o"," ","m","a","k","e">>,
    <<"T","h","e","y"," ","h","a","t","e","d"," ","e","a","c","h"," ","o","t","h","e","r">>,
    <<"i","n"," ","L","O","V","E","!">>,
    <<"T","h","e"," ","o","l","d"," ","m","a","n","s","i","o","n">>,
    <<"y","e","a","r","s"," ","l","a","t","e","r">> >>

TagLists ==
  { <<>>,
    << <<"R","o","m","a","n","c","e">> >>,
    << <<"R","e","c","i","p","e">> >>,
    << <<"R","e","c","i","p","e","s">>, <<"c","o","o","k","i","n","g">> >>,
    << <<"E","n","e","m","i","e","s">>, <<"R","e","c","i","p","e">>, <<"D","I","Y">> >> }

\* at most MaxFragments of the sentences, in the order of Fragments
FragmentChoices == {S \in SUBSET (1..Len(Fragments)) : Cardinality(S) <= MaxFragments}

Snippets == {str_join(<<" ">>, InDefinitionOrder(Fragments, S)) : S \in FragmentChoices}

\* the engine and the output handler are not used
EngineIdle ==
  /\ raw_taxonomy = <<>>
  /\ taxonomy = build_maps(raw_taxonomy)
  /\ valid_categories = <<>>
  /\ cases = <<>>
  /\ i = 0
  /\ prompt = NoPrompt
  /\ response_text = None
  /\ parsed = NoParse
  /\ validated_category = None
  /\ fault = None
  /\ results = <<>>
  /\ summary = NoSummary
  /\ LookupIdle

AnalyzerInit ==
  /\ text \in Snippets
  /\ tags \in TagLists
  /\ scores = <<>>
  /\ unmapped_check = NoCheck
  /\ pc = "analyzer"
  /\ result = NoResult
  /\ out_results = <<>>
  /\ EngineIdle

\* lines 330-365
CheckUnmapped ==
  /\ pc = "analyzer"
  /\ unmapped_check' = check_unmapped(text, tags)
  /\ pc' = "check_unmapped"
  /\ UNCHANGED <<loader_vars, lookup_vars, valid_categories, cases, i, local_vars, fault, result,
                 results, output_vars, text, tags, scores>>

\* lines 281-328
CalculateCategoryScores ==
  /\ pc \in {"analyzer", "check_unmapped"}
  /\ scores' = calculate_category_scores(text, tags)
  /\ pc' = "calculate_category_scores"
  /\ UNCHANGED <<loader_vars, lookup_vars, valid_categories, cases, i, local_vars, fault, result,
                 results, output_vars, text, tags, unmapped_check>>

AnalyzerNext ==
  \/ CheckUnmapped
  \/ CalculateCategoryScores

AnalyzerSpec == AnalyzerInit /\ [][AnalyzerNext]_vars

(***************************************************************************)
(* MappingResult.to_dict on a MappingResult with any field values          *)
(***************************************************************************)
AnyResults ==
  { MappingResult(case_id, << <<"h","o","r","r","o","r">> >>, <<"H","e","l","l","o",".">>, mapped_category, full_path,
                  reasoning_text, is_unmapped, is_error) :
      case_id \in {7},
      mapped_category \in {None, <<>>, <<"G","o","t","h","i","c">>, UNMAPPED_SENTINEL},
      full_path \in {None, <<"F","i","c","t","i","o","n"," ",">"," ","H","o","r","r","o","r"," ",">"," ","G","o","t","h","i","c">>},
      reasoning_text \in {<<>>, <<"A"," ","d","a","r","k"," ","h","o","u","s","e",".">>},
      is_unmapped \in BOOLEAN, is_error \in BOOLEAN }

ToDictInit ==
  /\ result \in AnyResults
  /\ out_results = <<>>
  /\ pc = "result"
  /\ EngineIdle
  /\ AnalyzerIdle

\* lines 45-56
ToDict ==
  /\ pc = "result"
  /\ out_results' = <<to_dict(result)>>
  /\ pc' = "to_dict"
  /\ UNCHANGED <<loader_vars, lookup_vars, valid_categories, cases, i, local_vars, fault, result,
                 results, summary, analyzer_vars>>

ToDictNext == ToDict

ToDictSpec == ToDictInit /\ [][ToDictNext]_vars


(***************************************************************************)
(* Properties of map_batch and map_single                                  *)
(***************************************************************************)
\* map_batch has returned
Returned ==
  pc \in OutputPcs

\* map_single is working on cases[i]
InMapSingle ==
  pc \in BatchPcs \ {"main", "loop"}

\* the k-th result answers the k-th case
AnswersCase(r, case) ==
  /\ r.case_id = case.id
  /\ r.user_tags = case.user_tags
  /\ r.snippet = case.snippet

\* C1: map_batch terminates, and when it has returned the result list has the
\* length of the case list and its k-th result carries the id, tags and snippet
\* of the k-th case; while a case is being resolved exactly the cases before it
\* have a result, so no case starts before the one before it is resolved.
C1_BatchTerminatesInOrder ==
  /\ <>Returned
  /\ [](Returned => /\ Len(results) = Len(cases)
                    /\ \A k \in 1..Len(cases) : AnswersCase(results[k], cases[k]))
  /\ []((InMapSingle \/ pc = "loop") =>
          /\ Len(results) = i - 1
          /\ \A k \in 1..Len(results) : AnswersCase(results[k], cases[k]))

C1_Witness ==
  /\ pc = "returned"
  /\ Len(cases) = 2
  /\ Len(results) = 2
  /\ results[1].case_id = 2
  /\ results[2].case_id = 1

ErrorPrefix == <<"E","r","r","o","r"," ","d","u","r","i","n","g"," ","c","l","a","s","s","i","f","i","c","a","t","i","o","n",":"," ">>

\* C2: a fault raised while a case is classified ends in the except clause, and
\* the result map_single then returns for that case is the ERROR result: both
\* flags set, no category, no path, the fault's description in the reasoning;
\* the program crashes only after map_batch has returned a result per case.
C2_FaultBecomesErrorResult ==
  /\ (pc = "except" => fault # None)
  /\ (pc = "append" /\ fault # None =>
        /\ AnswersCase(result, cases[i])
        /\ result.is_error
        /\ result.is_unmapped
        /\ result.mapped_category = None
        /\ result.full_path = None
        /\ result.reasoning = ErrorPrefix \o fault)
  /\ (pc = "crashed" => Len(results) = Len(cases))

\* the first case faulted and the second was classified all the same
C2_Witness ==
  /\ pc = "loop"
  /\ Len(results) = 2
  /\ results[1].is_error
  /\ results[1].reasoning = ErrorPrefix \o <<"C","o","n","n","e","c","t","i","o","n"," ","e","r","r","o","r",".">>
  /\ ~results[2].is_unmapped

\* the subcategory names of the taxonomy, as the file spells them
TaxonomyNames ==
  {taxonomy.subcategory_map[k].subcategory : k \in DOMAIN taxonomy.subcategory_map}

\* the name the reply gives, without brackets and surrounding blanks
CleanName(raw) == str_strip(str_strip_chars(raw, {"[", "]"}))

IsUnmappedToken(raw) == str_upper(CleanName(raw)) = UNMAPPED

IsWhitelisted(raw) == str_lower(CleanName(raw)) \in taxonomy.all_subcategories

\* r carries a category of the taxonomy and the path of that category
HasTaxonomyCategory(r) ==
  /\ r.mapped_category \in TaxonomyNames
  /\ r.full_path # None
  /\ \E k \in DOMAIN taxonomy.subcategory_map :
       LET info == taxonomy.subcategory_map[k]
       IN /\ info.subcategory = r.mapped_category
          /\ r.full_path = info.root \o <<" ",">"," ">> \o info.parent \o <<" ",">"," ">> \o info.subcategory

C4_CountsPartitionCases ==
  pc \in {"summary_average", "written", "printed"} =>
    summary.successfully_mapped + summary.unmapped + summary.errors = summary.total_cases

\* C5: every result of map_batch has a confidence_score between 0 and 1, 0 for
\* an ERROR result, and every serialized result has the key confidence_score.
C5_ConfidencePresent ==
  /\ \A k \in 1..Len(results) :
       /\ "confidence_score" \in DOMAIN results[k]
       /\ results[k].confidence_score \in 0..Scale
       /\ (results[k].is_error => results[k].confidence_score = 0)
  /\ \A k \in 1..Len(out_results) : "confidence_score" \in DOMAIN out_results[k]

\* C6: the serialized form of an unmapped result has full_path null and the
\* "[UNMAPPED]" sentinel as mapped_category, whatever the two fields hold; the
\* serialized form of any other result has both fields unchanged.
C6_UnmappedSerializesNoCategory ==
  pc = "to_dict" =>
    LET d == out_results[1]
    IN /\ (result.is_unmapped =>
             d.full_path = None /\ d.mapped_category = <<"[","U","N","M","A","P","P","E","D","]">>)
       /\ (~result.is_unmapped =>
             d.full_path = result.full_path /\ d.mapped_category = result.mapped_category)

\* an unmapped result that holds a category and a path is serialized
C6_Witness ==
  /\ pc = "to_dict"
  /\ result.is_unmapped
  /\ result.mapped_category = <<"G","o","t","h","i","c">>
  /\ result.full_path = <<"F","i","c","t","i","o","n"," ",">"," ","H","o","r","r","o","r"," ",">"," ","G","o","t","h","i","c">>
  /\ out_results[1].full_path = None


(***************************************************************************)
(* Properties of the TextAnalyzer                                          *)
(***************************************************************************)
\* the positions of the indicator keywords that occur in the normalized snippet
\* or equal a lowercased tag
GateKeywordHits(normalized) ==
  {n \in 1..Len(unmapped_indicators.keywords) :
     \/ str_contains(normalized, unmapped_indicators.keywords[n])
     \/ \E t \in 1..Len(tags) : str_lower(tags[t]) = unmapped_indicators.keywords[n]}

GatePhraseHits(normalized) ==
  {n \in 1..Len(unmapped_indicators.phrases) :
     re_search(unmapped_indicators.phrases[n], normalized)}

\* C7: check_unmapped reports is_unmapped exactly when k >= 3 or (p >= 1 and
\* k >= 1), for k the number of indicator keywords found in the normalized
\* snippet or equal to a lowercased tag and p the number of indicator phrases
\* found in the normalized snippet.
C7_GateDecision ==
  pc = "check_unmapped" =>
    LET normalized == preprocess(text)
        k == Cardinality(GateKeywordHits(normalized))
        p == Cardinality(GatePhraseHits(normalized))
    IN /\ Len(unmapped_check.matched_keywords) = k
       /\ Len(unmapped_check.matched_phrases) = p
       /\ unmapped_check.is_unmapped <=> ((k >= 3) \/ (p >= 1 /\ k >= 1))
       /\ (k = 2 /\ p = 0 => ~unmapped_check.is_unmapped)
       /\ (k = 3 => unmapped_check.is_unmapped)
       /\ (k = 1 /\ p = 1 => unmapped_check.is_unmapped)
       /\ (p >= 1 /\ k = 0 => ~unmapped_check.is_unmapped)

\* a phrase is found and no keyword: not unmapped
C7_Witness ==
  /\ pc = "check_unmapped"
  /\ Cardinality(GatePhraseHits(preprocess(text))) = 1
  /\ Cardinality(GateKeywordHits(preprocess(text))) = 0
  /\ ~unmapped_check.is_unmapped

\* the hits of category n in the normalized snippet: the positions of its
\* keywords that are found, those of its phrases that are found, and whether
\* one of its required terms occurs in the normalized snippet or in a
\* lowercased tag
Hits(n, normalized) ==
  [keywords |-> {m \in 1..Len(category_patterns[n].keywords) :
                   str_contains(normalized, category_patterns[n].keywords[m])},
   phrases |-> {m \in 1..Len(category_patterns[n].phrases) :
                  re_search(category_patterns[n].phrases[m], normalized)},
   context |-> \E c \in 1..Len(category_patterns[n].context_requires) :
                 \/ str_contains(normalized, category_patterns[n].context_requires[c])
                 \/ \E t \in 1..Len(tags) :
                      str_contains(str_lower(tags[t]),
                                   category_patterns[n].context_requires[c])]

AllHits == LET normalized == preprocess(text)
           IN [n \in 1..Len(category_patterns) |-> Hits(n, normalized)]

Gated(n, h) == Len(category_patterns[n].context_requires) > 0 /\ ~h.context

\* (keyword hits * 1.0 + phrase hits * 2.0) * g * weight, in 1/1000000:
\* hits in units, g and weight in hundredths
ExpectedScoreMillionths(n, h) ==
  (Cardinality(h.keywords) * 100 + Cardinality(h.phrases) * 200)
    * (IF Gated(n, h) THEN 30 ELSE 100) * category_patterns[n].weight

\* the positions in scores of the entries of category n
EntriesOf(n) == {e \in 1..Len(scores) : scores[e].category = category_patterns[n].name}

\* C8: calculate_category_scores has an entry for a category exactly when
\* (keyword hits * 1.0 + phrase hits * 2.0) * g * weight is positive, with
\* g = 0.3 for a category whose required context is missing and 1 otherwise;
\* the entry's score is that number and its matched_keywords and
\* matched_phrases are the hits in definition order.
C8_ScoreFormula ==
  pc = "calculate_category_scores" =>
    LET hits == AllHits
    IN /\ \A e \in 1..Len(scores) : \E n \in 1..Len(category_patterns) : e \in EntriesOf(n)
       /\ \A n \in 1..Len(category_patterns) :
            /\ Cardinality(EntriesOf(n)) =
                 (IF ExpectedScoreMillionths(n, hits[n]) > 0 THEN 1 ELSE 0)
            /\ \A e \in EntriesOf(n) :
                 /\ scores[e].score * 10000 = ExpectedScoreMillionths(n, hits[n])
                 /\ scores[e].matched_keywords =
                      InDefinitionOrder(category_patterns[n].keywords, hits[n].keywords)
                 /\ scores[e].matched_phrases =
                      InDefinitionOrder(category_patterns[n].phrases, hits[n].phrases)

\* two keywords and a phrase of enemies-to-lovers with no required term:
\* (2 * 1.0 + 1 * 2.0) * 0.3 * 1.0 = 1.2; gothic beside it: two keywords and
\* a phrase, 4.0
C8_Witness ==
  /\ pc = "calculate_category_scores"
  /\ tags = <<>>
  /\ \E e \in 1..Len(scores) :
       /\ scores[e].category = <<"e","n","e","m","i","e","s","-","t","o","-","l","o","v","e","r","s">>
       /\ scores[e].score = 120
       /\ scores[e].matched_keywords = << <<"h","a","t","e">>, <<"h","a","t","e","d">> >>
       /\ Len(scores[e].matched_phrases) = 1
  /\ \E e \in 1..Len(scores) :
       /\ scores[e].category = <<"g","o","t","h","i","c">>
       /\ scores[e].score = 400

\* the score the hits of category n give when a required term is present
UngatedScore(n, h) ==
  FMul(Cardinality(h.keywords) * KeywordScore + Cardinality(h.phrases) * PhraseScore,
       category_patterns[n].weight)

NoPatternsReasoning == <<"N","o"," ","m","a","t","c","h","i","n","g"," ","p","a","t","t","e","r","n","s"," ","f","o","u","n","d"," ","i","n"," ","c","o","n","t","e","n","t"," ","o","r"," ","t","a","g","s",".">>

\* C10: the result of a case is decided by the unmapped gate first: when the
\* gate reports is_unmapped the case is UNMAPPED with no category and no
\* path; otherwise, when no category scores, it is UNMAPPED with the reasoning
\* "No matching patterns found in content or tags."; otherwise it is mapped
\* to a category that scored.
C10_GateThenScorer ==
  \A k \in 1..Len(results) :
    LET gate == check_unmapped(cases[k].snippet, cases[k].user_tags)
        scored == calculate_category_scores(cases[k].snippet, cases[k].user_tags)
    IN IF gate.is_unmapped
       THEN /\ results[k].is_unmapped
            /\ ~results[k].is_error
            /\ results[k].mapped_category = None
            /\ results[k].full_path = None
       ELSE IF Len(scored) = 0
       THEN /\ results[k].is_unmapped
            /\ ~results[k].is_error
            /\ results[k].reasoning = NoPatternsReasoning
       ELSE /\ ~results[k].is_unmapped
            /\ ~results[k].is_error
            /\ \E e \in 1..Len(scored) :
                 str_lower(results[k].mapped_category) = scored[e].category

(***************************************************************************)
(* The selector                                                            *)
(***************************************************************************)
\* the positions of the entries of scored whose score is maximal and that no
\* entry with the same score precedes
FirstMaximal(scored) ==
  {e \in 1..Len(scored) :
     /\ \A f \in 1..Len(scored) : scored[f].score <= scored[e].score
     /\ \A f \in 1..(e - 1) : scored[f].score < scored[e].score}

\* C11: the category a case is mapped to is a category of maximal score among
\* those calculate_category_scores returns for the case, and among the
\* categories of equal maximal score the first in the order of the scoring
\* pass (registry definition order).
C11_SelectorPicksFirstMaximal ==
  \A k \in 1..Len(results) :
    (~results[k].is_unmapped /\ ~results[k].is_error) =>
      LET scored == calculate_category_scores(cases[k].snippet, cases[k].user_tags)
      IN \E e \in FirstMaximal(scored) :
           str_lower(results[k].mapped_category) = scored[e].category

(***************************************************************************)
(* TaxonomyLoader on its own: a taxonomy file is loaded, the engine's      *)
(* whitelist is built, then the lookup methods are called in any order     *)
(***************************************************************************)
MaxParents == 1

RootNames == << <<"F","i","c","t","i","o","n">>, <<"F","i","l","m">> >>

ParentNames == << <<"H","o","r","r","o","r">>, <<"T","h","r","i","l","l","e","r">> >>

SubcategoryNames == << <<"G","o","t","h","i","c">>, <<"S","l","a","s","h","e","r">> >>

\* the lists of elements of names, in the order of names
Sublists(names) == {InDefinitionOrder(names, S) : S \in SUBSET (1..Len(names))}

\* the parents of one root, at most MaxParents of them, each with its list
\* of subcategories
GenreLists ==
  UNION {{[k \in 1..Len(ps) |-> [parent |-> ps[k], subcategories |-> subs[k]]] :
            subs \in [1..Len(ps) -> Sublists(SubcategoryNames)]} :
         ps \in {qs \in Sublists(ParentNames) : Len(qs) <= MaxParents}}

\* the nested taxonomies json.load may return
RawTaxonomies ==
  UNION {{[k \in 1..Len(rs) |-> [root |-> rs[k], genres |-> gs[k]]] :
            gs \in [1..Len(rs) -> GenreLists]} :
         rs \in Sublists(RootNames)}

\* the strings the lookup methods are called with
Queries ==
  { <<"g","o","t","h","i","c">>, <<"S","L","A","S","H","E","R">>,
    <<"u","n","k","n","o","w","n">>, <<"H","o","r","r","o","r">> }

\* the categories a reply may name
ReplyCategories == { <<"[","g","o","t","h","i","c","]">>, <<"W","e","s","t","e","r","n">> }

\* lines 18-21: the tables before _load
EmptyMaps == [subcategory_map |-> EmptyDict, parent_map |-> EmptyDict, all_subcategories |-> {}]

\* dict.get(key, default)
dict_get(d, key, default) == IF key \in DOMAIN d THEN d[key] ELSE default

\* lines 85-87
get_subcategories_for_parent(tax, parent) ==
  dict_get(tax.parent_map, str_lower(parent), <<>>)

\* lines 89-91: the keys of parent_map as a list
get_all_parents(tax) == list_of_set(DOMAIN tax.parent_map)

\* what a call of a method of the loader returns
lookup_value(tax, call) ==
  IF call.method = "get_full_path" THEN get_full_path(tax, call.arg)
  ELSE IF call.method = "get_hierarchy_info"
  THEN dict_get(tax.subcategory_map, str_lower(call.arg), None)
  ELSE IF call.method = "is_valid_subcategory" THEN is_valid_subcategory(tax, call.arg)
  ELSE IF call.method = "get_subcategories_for_parent"
  THEN get_subcategories_for_parent(tax, call.arg)
  ELSE IF call.method = "get_all_parents" THEN get_all_parents(tax)
  ELSE get_all_subcategories(tax)

\* get_subcategories_for_parent written with parent_map.setdefault(key, [])
lookup_setdefault(tax, call) ==
  LET key == str_lower(call.arg)
  IN [self |-> IF call.method = "get_subcategories_for_parent"
                  /\ key \notin DOMAIN tax.parent_map
               THEN [tax EXCEPT !.parent_map = dict_set(@, key, <<>>)]
               ELSE tax,
      value |-> lookup_value(tax, call)]

\* lines 51-95: a call of a method of the loader: the tables after the call
\* (no method assigns to them) and what the call returned
lookup(tax, call) == [self |-> tax, value |-> lookup_value(tax, call)]

LoaderInit ==
  /\ raw_taxonomy \in RawTaxonomies
  /\ taxonomy = EmptyMaps
  /\ valid_categories = <<>>
  /\ pc = "start"
  /\ query = NoCall
  /\ answer = None
  /\ cases = <<>>
  /\ i = 0
  /\ prompt = NoPrompt
  /\ response_text = None
  /\ parsed = NoParse
  /\ validated_category = None
  /\ fault = None
  /\ result = NoResult
  /\ results = <<>>
  /\ out_results = <<>>
  /\ summary = NoSummary
  /\ AnalyzerIdle

\* TaxonomyLoader._load (lines 24-28) and InferenceEngine.__init__ (line 70)
Load ==
  /\ pc = "start"
  /\ taxonomy' = build_maps(raw_taxonomy)
  /\ valid_categories' = build_category_list(taxonomy')
  /\ pc' = "loaded"
  /\ UNCHANGED <<raw_taxonomy, lookup_vars, cases, i, local_vars, fault, result, results,
                 output_vars, analyzer_vars>>

\* one call of a method, with any of the arguments in args
Call(method, args) ==
  /\ pc \in {"loaded", "called"}
  /\ \E arg \in args :
       LET call == [method |-> method, arg |-> arg]
           after == lookup(taxonomy, call)
       IN /\ query' = call
          /\ answer' = after.value
          /\ taxonomy' = after.self
  /\ pc' = "called"
  /\ UNCHANGED <<raw_taxonomy, valid_categories, cases, i, local_vars, fault, result,
                 results, output_vars, analyzer_vars>>

GetFullPath == Call("get_full_path", Queries)

GetHierarchyInfo == Call("get_hierarchy_info", Queries)

IsValidSubcategory == Call("is_valid_subcategory", Queries)

GetSubcategoriesForParent == Call("get_subcategories_for_parent", Queries)

GetAllParents == Call("get_all_parents", {<<>>})

GetAllSubcategories == Call("get_all_subcategories", {<<>>})

\* map_single seen from the loader (lines 204-230): the category of the reply
\* is validated and the path of a validated subcategory is looked up
MapSingleLookup ==
  /\ pc \in {"loaded", "called"}
  /\ \E category \in ReplyCategories :
       LET validated == validate_category(taxonomy, valid_categories, category)
           call == [method |-> "get_full_path", arg |-> validated]
           after == lookup(taxonomy, call)
       IN /\ query' = [method |-> "map_single", arg |-> category]
          /\ IF validated = None \/ validated = UNMAPPED
             THEN answer' = None /\ taxonomy' = taxonomy
             ELSE answer' = after.value /\ taxonomy' = after.self
  /\ pc' = "called"
  /\ UNCHANGED <<raw_taxonomy, valid_categories, cases, i, local_vars, fault, result,
                 results, output_vars, analyzer_vars>>

LoaderNext ==
  \/ Load
  \/ GetFullPath
  \/ GetHierarchyInfo
  \/ IsValidSubcategory
  \/ GetSubcategoriesForParent
  \/ GetAllParents
  \/ GetAllSubcategories
  \/ MapSingleLookup

LoaderSpec == LoaderInit /\ [][LoaderNext]_vars

(***************************************************************************)
(* Properties of the TaxonomyLoader                                        *)
(***************************************************************************)
\* the (root, parent, subcategory) triples of a taxonomy file
Entries(raw) ==
  UNION {UNION {{[root |-> raw[r].root, parent |-> raw[r].genres[g].parent,
                  subcategory |-> raw[r].genres[g].subcategories[k]] :
                   k \in 1..Len(raw[r].genres[g].subcategories)} :
                g \in 1..Len(raw[r].genres)} :
         r \in 1..Len(raw)}

\* the parent names of a taxonomy file
ParentsOf(raw) ==
  UNION {{raw[r].genres[g].parent : g \in 1..Len(raw[r].genres)} : r \in 1..Len(raw)}

PathOf(entry) == entry.root \o ArrowSep \o entry.parent \o ArrowSep \o entry.subcategory

\* the triples of the file whose subcategory is s, letter case aside
EntriesNamed(s) == {e \in Entries(raw_taxonomy) : str_lower(e.subcategory) = str_lower(s)}

\* C12: get_full_path(s) is defined exactly when the lowercased s is a
\* subcategory of the loaded taxonomy, and is then "root > parent >
\* subcategory" in the spelling of the file; on a miss get_full_path and
\* get_hierarchy_info return None, is_valid_subcategory returns False and
\* get_subcategories_for_parent returns the empty list.
C12_LookupsTotal ==
  pc = "called" =>
    /\ query.method = "get_full_path" =>
         IF EntriesNamed(query.arg) = {} THEN answer = None
         ELSE \E e \in EntriesNamed(query.arg) : answer = PathOf(e)
    /\ query.method = "get_hierarchy_info" =>
         IF EntriesNamed(query.arg) = {} THEN answer = None
         ELSE answer \in EntriesNamed(query.arg)
    /\ query.method = "is_valid_subcategory" =>
         (answer <=> EntriesNamed(query.arg) # {})
    /\ (query.method = "get_subcategories_for_parent"
          /\ \A p \in ParentsOf(raw_taxonomy) : str_lower(p) # str_lower(query.arg)) =>
         answer = <<>>

\* the taxonomy {"Fiction": {"Horror": ["Gothic"]}}: get_full_path("gothic")
C12_Witness ==
  /\ pc = "called"
  /\ raw_taxonomy = << [root |-> <<"F","i","c","t","i","o","n">>,
                        genres |-> << [parent |-> <<"H","o","r","r","o","r">>,
                                       subcategories |-> << <<"G","o","t","h","i","c">> >>] >>] >>
  /\ query = [method |-> "get_full_path", arg |-> <<"g","o","t","h","i","c">>]
  /\ answer = <<"F","i","c","t","i","o","n"," ",">"," ","H","o","r","r","o","r"," ",">"," ","G","o","t","h","i","c">>

\* a miss: get_subcategories_for_parent("unknown") is the empty list
C12_WitnessMiss ==
  /\ pc = "called"
  /\ Len(raw_taxonomy) > 0
  /\ query = [method |-> "get_subcategories_for_parent", arg |-> <<"u","n","k","n","o","w","n">>]
  /\ answer = <<>>

(***************************************************************************)
(* TextAnalyzer.preprocess on its own, over every string of at most MaxLen *)
(* characters of Alphabet                                                  *)
(***************************************************************************)
MaxLen == 3

Alphabet == {"A", "b", " ", "\t", "!", "'", "-", "_"}

PreprocessInit ==
  /\ text \in SeqsUpTo(Alphabet, MaxLen)
  /\ tags = <<>>
  /\ scores = <<>>
  /\ unmapped_check = NoCheck
  /\ pc = "text"
  /\ result = NoResult
  /\ out_results = <<>>
  /\ EngineIdle

\* lines 239-252; answer is the text returned
Preprocess ==
  /\ pc = "text"
  /\ answer' = preprocess(text)
  /\ pc' = "preprocess"
  /\ UNCHANGED <<loader_vars, query, valid_categories, cases, i, local_vars, fault, result,
                 results, output_vars, analyzer_vars>>

\* preprocess called on what preprocess returned
PreprocessAgain ==
  /\ pc = "preprocess"
  /\ text' = answer
  /\ answer' = preprocess(answer)
  /\ pc' = "preprocess_again"
  /\ UNCHANGED <<loader_vars, query, valid_categories, cases, i, local_vars, fault, result,
                 results, output_vars, tags, scores, unmapped_check>>

PreprocessNext ==
  \/ Preprocess
  \/ PreprocessAgain

PreprocessSpec == PreprocessInit /\ [][PreprocessNext]_vars

\* C13: preprocess is idempotent, and the text it returns is lowercase, has
\* no leading or trailing whitespace, no two whitespace characters in a row
\* and no character other than word characters, spaces, apostrophes and
\* hyphens.
C13_PreprocessIdempotent ==
  /\ pc = "preprocess_again" => answer = text
  /\ pc \in {"preprocess", "preprocess_again"} =>
       /\ \A k \in 1..Len(answer) :
            /\ answer[k] \notin UpperSet
            /\ IsWordChar(answer[k]) \/ answer[k] \in {" ", "'", "-"}
       /\ Len(answer) > 0 =>
            (answer[1] \notin Whitespace /\ answer[Len(answer)] \notin Whitespace)
       /\ \A k \in 1..(Len(answer) - 1) :
            ~(answer[k] \in Whitespace /\ answer[k + 1] \in Whitespace)

\* "A!b" gave "a b", and "a b" gives "a b" again
C13_Witness ==
  /\ pc = "preprocess_again"
  /\ text = <<"a", " ", "b">>
  /\ answer = <<"a", " ", "b">>

\* C14: once the taxonomy is loaded and the engine constructed, no call of
\* get_full_path, get_hierarchy_info, is_valid_subcategory,
\* get_subcategories_for_parent, get_all_parents, get_all_subcategories or
\* map_single changes subcategory_map, parent_map or all_subcategories, and
\* valid_categories stays the list computed at construction.
C14_IndexReadOnly ==
  [][pc # "start" => (taxonomy' = taxonomy /\ valid_categories' = valid_categories)]_vars

\* a parent that is not in the taxonomy was asked for, and the tables are
\* still those _build_maps made
C14_Witness ==
  /\ pc = "called"
  /\ query.method = "get_subcategories_for_parent"
  /\ str_lower(query.arg) \notin DOMAIN taxonomy.parent_map
  /\ Len(valid_categories) > 0
  /\ taxonomy = build_maps(raw_taxonomy)
  /\ valid_categories = build_category_list(build_maps(raw_taxonomy))

(***************************************************************************)
(* The tags and the scores                                                 *)
(***************************************************************************)
\* the position in the registry of the category called name
RegistryIndex(name) == CHOOSE n \in 1..Len(category_patterns) : category_patterns[n].name = name

\* two results of calculate_category_scores have the same categories with the
\* same hits; the scores are equal, or for a category with required context
\* terms one is 0.3 times the other
SameButGating(a, b) ==
  /\ Len(a) = Len(b)
  /\ \A e \in 1..Len(a) :
       /\ a[e].category = b[e].category
       /\ a[e].matched_keywords = b[e].matched_keywords
       /\ a[e].matched_phrases = b[e].matched_phrases
       /\ \/ a[e].score = b[e].score
          \/ /\ Len(category_patterns[RegistryIndex(a[e].category)].context_requires) > 0
             /\ \/ a[e].score * 100 = 30 * b[e].score
                \/ b[e].score * 100 = 30 * a[e].score

C16_GateConfidence ==
  pc = "check_unmapped" =>
    LET normalized == preprocess(text)
        k == Cardinality(GateKeywordHits(normalized))
        p == Cardinality(GatePhraseHits(normalized))
        c == unmapped_check.confidence
    IN /\ c * 5 = (IF k + 2 * p < 5 THEN (k + 2 * p) * 100 ELSE 500)
       /\ c >= 0 /\ c <= 100
       /\ (c = 0) <=> (k = 0 /\ p = 0)
       /\ unmapped_check.is_unmapped => c >= 60

\* four keywords and a phrase: 6 / 5 is cut to 1
C16_Witness ==
  /\ pc = "check_unmapped"
  /\ Len(unmapped_check.matched_keywords) = 4
  /\ Len(unmapped_check.matched_phrases) = 1
  /\ unmapped_check.is_unmapped
  /\ unmapped_check.confidence = 100

\* a keyword and a phrase: unmapped with confidence 0.6
C16_WitnessThreshold ==
  /\ pc = "check_unmapped"
  /\ Len(unmapped_check.matched_keywords) = 1
  /\ Len(unmapped_check.matched_phrases) = 1
  /\ unmapped_check.is_unmapped
  /\ unmapped_check.confidence = 60

(***************************************************************************)
(* The three tables of the TaxonomyLoader                                  *)
(***************************************************************************)
\* the parent names of the file differ, letter case aside
ParentsDistinct(raw) ==
  \A r1, r2 \in 1..Len(raw) :
    \A g1 \in 1..Len(raw[r1].genres) : \A g2 \in 1..Len(raw[r2].genres) :
      (str_lower(raw[r1].genres[g1].parent) = str_lower(raw[r2].genres[g2].parent))
        => (r1 = r2 /\ g1 = g2)

\* the three tables agree with each other
TablesAgree(tax) ==
  /\ \A key \in DOMAIN tax.subcategory_map \cup DOMAIN tax.parent_map : str_lower(key) = key
  /\ tax.all_subcategories = DOMAIN tax.subcategory_map
  /\ \A key \in DOMAIN tax.subcategory_map :
       LET parent == str_lower(tax.subcategory_map[key].parent)
       IN /\ parent \in DOMAIN tax.parent_map
          /\ InList(key, tax.parent_map[parent])
  /\ \A parent \in DOMAIN tax.parent_map :
       \A k \in 1..Len(tax.parent_map[parent]) :
         tax.parent_map[parent][k] \in DOMAIN tax.subcategory_map

\* C17: after the load of any nested taxonomy the keys of the tables are
\* lowercased, all_subcategories is the key set of subcategory_map, every
\* subcategory of subcategory_map is listed in parent_map under its lowercased
\* parent, and every name listed in parent_map is a key of subcategory_map,
\* also when the same parent name occurs under two roots.
C17_TablesAgree == pc # "start" => TablesAgree(taxonomy)

\* the same, for the files whose parent names all differ
C17_TablesAgreeDistinctParents ==
  (pc # "start" /\ ParentsDistinct(raw_taxonomy)) => TablesAgree(taxonomy)


(***************************************************************************)
(* C18: the UNMAPPED token of a reply                                      *)
(***************************************************************************)
\* r carries no category and no path
NoCategory(r) == r.mapped_category = None /\ r.full_path = None

\* C18: when the category of the reply, without brackets and surrounding
\* blanks, is UNMAPPED in any letter case, the result is unmapped, is no error
\* and carries no category and no path, whatever else the reply names; no
\* unmapped result and no error result carries a category or a path, and every
\* error result is unmapped.
C18_UnmappedTokenWins ==
  /\ (pc = "append" /\ fault = None
        /\ (validated_category = UNMAPPED
              \/ (parsed.category # None /\ IsUnmappedToken(parsed.category)))
      => /\ result.is_unmapped
         /\ ~result.is_error
         /\ NoCategory(result))
  /\ (pc = "append" =>
        /\ (result.is_unmapped \/ result.is_error => NoCategory(result))
        /\ (result.is_error => result.is_unmapped))
  /\ \A k \in 1..Len(results) :
       /\ (results[k].is_unmapped \/ results[k].is_error => NoCategory(results[k]))
       /\ (results[k].is_error => results[k].is_unmapped)

\* the reply says UNMAPPED and names the subcategory Gothic in its reasoning
C18_Witness ==
  /\ pc = "append"
  /\ response_text = <<"C","a","t","e","g","o","r","y",":"," ","U","N","M","A","P","P","E","D","\n","R","e","a","s","o","n","i","n","g",":"," ","N","o","t"," ","G","o","t","h","i","c",".">>
  /\ <<"G","o","t","h","i","c">> \in TaxonomyNames
  /\ result.is_unmapped
  /\ ~result.is_error
  /\ NoCategory(result)

\* the reply spells the token in lower case and in brackets
C18_WitnessBrackets ==
  /\ pc = "append"
  /\ parsed.category = <<"[","u","n","m","a","p","p","e","d","]">>
  /\ result.is_unmapped
  /\ ~result.is_error
  /\ NoCategory(result)

====
